---- MODULE Spec2Model ----
(***************************************************************************)
(* Interview day scheduler (ariera/interviews-scheduler).                  *)
(*                                                                         *)
(* The model follows one InterviewScheduler object through its life: the   *)
(* arguments (or the YAML configuration) it is created from, the          *)
(* validation run by the constructor, and solve(), where the CP-SAT       *)
(* solver returns any assignment of the model built by the _add_*         *)
(* methods (status FEASIBLE), a best one (OPTIMAL), none (INFEASIBLE) or  *)
(* gives up (UNKNOWN).  Further specifications follow the reporting        *)
(* methods, the conversions between clock times, slots and texts, and the  *)
(* two HTTP adapters (web/app.py, api/app.py): their solution loops and    *)
(* their store of sessions.                                                *)
(***************************************************************************)
EXTENDS Integers, Sequences, FiniteSets, TLC

VARIABLES
    config,         \* the configuration dictionary given to create_scheduler_from_config, or NoConfig
    args,           \* the constructor's arguments, then the object's problem fields
    phase,          \* "config", "args": not yet created; "rejected": ValueError; "ready"; "solved"
    error,          \* the check that raised, "" when none did
    status,         \* self.status: "NONE" before solve(), then the solver's status
    solution_found, \* self.solution_found
    start_vars,     \* the solver's value of every start variable, NoValues without a solution
    objective,      \* the objective's value for two assignments under comparison, NoValues if none
    output,         \* what the most recent call returned to its caller, NoOutput if nothing
    model,          \* self.model: the constraint groups added to it, NoModel before solve()
    request,        \* the HTTP request being handled and how far its handler is, NoRequest if none
    temp_files,     \* the adapter's dictionary of stored sessions, by session id
    issued,         \* the session ids uuid4() has returned so far
    now             \* time.time(), in seconds

\* The state of the process the HTTP adapters run in.
web == <<request, temp_files, issued, now>>

vars == <<config, args, phase, error, status, solution_found, start_vars, objective, output, model,
          request, temp_files, issued, now>>

(***************************************************************************)
(* Bounds of the model.                                                    *)
(***************************************************************************)
MaxCandidates == 2
MaxDuration == 2
DaySlots == 4

NoConfig == [kind |-> "none"]
NoValues == <<>>
NoOutput == [op |-> "none"]
NoModel == <<>>
NoRequest == [op |-> "none"]
NoSessions == <<>>

(***************************************************************************)
(* Small helpers.                                                          *)
(***************************************************************************)
Range(s) == {s[i] : i \in DOMAIN s}

RECURSIVE SetSum(_, _)
SetSum(f, S) ==
    IF S = {} THEN 0
    ELSE LET x == CHOOSE y \in S : TRUE IN f[x] + SetSum(f, S \ {x})

\* Python's sum() of Booleans over a set of keys: the number of true ones.
CountTrue(f) == Cardinality({x \in DOMAIN f : f[x]})

StrPos(s) == [type |-> "str", str |-> s, int |-> 0]
IntPos(k) == [type |-> "int", str |-> "", int |-> k]
Pin(p, pos) == [panel |-> p, position |-> pos]

(***************************************************************************)
(* InterviewScheduler.__init__: derived parameters.                        *)
(***************************************************************************)
Candidates(a) == 0 .. (a.num_candidates - 1)

PanelSet(a) == DOMAIN a.panels

\* Python's floor division, for a positive divisor.
FloorDiv(x, y) == x \div y

max_gap_slots(a) == FloorDiv(a.max_gap_minutes, a.slot_duration_minutes)

(***************************************************************************)
(* InterviewScheduler._validate_parameters: the first check that raises,   *)
(* "" when all pass.                                                       *)
(***************************************************************************)
OrderOK(a) == \A i \in DOMAIN a.order : a.order[i] \in PanelSet(a)

AvailabilityPresent(a) == \A p \in PanelSet(a) : p \in DOMAIN a.availabilities

WindowOK(a, w) == ~(w[1] < 0 \/ w[2] > a.slots_per_day \/ w[1] >= w[2])

WindowsOK(a) ==
    \A p \in DOMAIN a.availabilities :
        \A i \in DOMAIN a.availabilities[p] : WindowOK(a, a.availabilities[p][i])

PinPanelOK(a, pin) == pin.panel \in PanelSet(a)

PinPositionOK(a, pin) ==
    CASE pin.position.type = "str" -> pin.position.str \in {"first", "last"}
      [] pin.position.type = "int" ->
            0 <= pin.position.int /\ pin.position.int < Cardinality(PanelSet(a))
      [] OTHER -> FALSE

\* The loop over position_constraints raises at the first bad item.
RECURSIVE PinsError(_, _)
PinsError(a, pins) ==
    IF pins = <<>> THEN ""
    ELSE IF ~PinPanelOK(a, Head(pins)) THEN "UnknownPinnedPanel"
    ELSE IF ~PinPositionOK(a, Head(pins)) THEN "BadPosition"
    ELSE PinsError(a, Tail(pins))

\* Mutant: the check for duplicates within a group is missing.
ConflictGroupOKNoDuplicateCheck(a, g) ==
    /\ Len(g) >= 2
    /\ \A i \in DOMAIN g : g[i] \in PanelSet(a)

ConflictGroupOK(a, g) ==
    /\ Len(g) >= 2
    /\ \A i \in DOMAIN g : g[i] \in PanelSet(a)
    /\ Cardinality(Range(g)) = Len(g)

ConflictsOK(a) == \A i \in DOMAIN a.panel_conflicts : ConflictGroupOK(a, a.panel_conflicts[i])

validate_parameters(a) ==
    IF ~OrderOK(a) THEN "UnknownPanelInOrder"
    ELSE IF ~AvailabilityPresent(a) THEN "MissingAvailability"
    ELSE IF ~WindowsOK(a) THEN "BadWindow"
    ELSE IF PinsError(a, a.position_constraints) # "" THEN PinsError(a, a.position_constraints)
    ELSE IF ~ConflictsOK(a) THEN "BadConflictGroup"
    ELSE ""

(***************************************************************************)
(* InterviewScheduler.solve: the decision variables.  A row gives one      *)
(* candidate's start slot per panel; an assignment gives a row for every   *)
(* candidate.  start_{c}_{p} ranges over 0 .. slots_per_day - d.           *)
(***************************************************************************)
StartDomain(a, p) == 0 .. (a.slots_per_day - a.panels[p])

RowDomain(a) == {r \in [PanelSet(a) -> 0 .. a.slots_per_day] :
                    \A p \in PanelSet(a) : r[p] \in StartDomain(a, p)}

End(a, r, p) == r[p] + a.panels[p]

\* NewIntVar(0, slots_per_day - d) with d > slots_per_day has an empty domain: CP-SAT
\* refuses such a model when asked to solve it (status MODEL_INVALID).
ModelInvalid(a) == \E p \in PanelSet(a) : a.slots_per_day - a.panels[p] < 0

\* AddNoOverlap on two intervals (start, size): one ends before the other starts.
NoOverlap2(s1, d1, s2, d2) == s1 + d1 <= s2 \/ s2 + d2 <= s1

(***************************************************************************)
(* InterviewScheduler._add_basic_constraints.                              *)
(***************************************************************************)
lunch_like_panels == {"Lunch"}

CandidateNoOverlap(a, r) ==
    \A p, q \in PanelSet(a) :
        p # q => NoOverlap2(r[p], a.panels[p], r[q], a.panels[q])

\* Mutant: the test of lunch_like_panels inverted, so that only Lunch is constrained.
PanelNoOverlapOnlyShared(a, st) ==
    \A p \in PanelSet(a) :
        p \in lunch_like_panels =>
            \A c1, c2 \in Candidates(a) :
                c1 # c2 => NoOverlap2(st[c1][p], a.panels[p], st[c2][p], a.panels[p])

\* Mutant: no panel is shared, Lunch sees one candidate at a time as well.
PanelNoOverlapEveryPanel(a, st) ==
    \A p \in PanelSet(a) :
        \A c1, c2 \in Candidates(a) :
            c1 # c2 => NoOverlap2(st[c1][p], a.panels[p], st[c2][p], a.panels[p])

PanelNoOverlap(a, st) ==
    \A p \in PanelSet(a) :
        p \notin lunch_like_panels =>
            \A c1, c2 \in Candidates(a) :
                c1 # c2 => NoOverlap2(st[c1][p], a.panels[p], st[c2][p], a.panels[p])

\* Mutant: the chosen window bounds the start of the session and not its end.
AvailabilityChoiceStartOnly(a, r, p) ==
    LET windows == a.availabilities[p] IN
    \E option \in [DOMAIN windows -> BOOLEAN] :
        /\ \A i \in DOMAIN windows :
              option[i] => (r[p] >= windows[i][1] /\ r[p] <= windows[i][2])
        /\ CountTrue(option) = 1

\* One Boolean per window; a chosen window contains the session; exactly one is chosen.
AvailabilityChoice(a, r, p) ==
    LET windows == a.availabilities[p] IN
    \E option \in [DOMAIN windows -> BOOLEAN] :
        /\ \A i \in DOMAIN windows :
              option[i] => (r[p] >= windows[i][1] /\ r[p] + a.panels[p] <= windows[i][2])
        /\ CountTrue(option) = 1

AvailabilityConstraints(a, r) == \A p \in PanelSet(a) : AvailabilityChoice(a, r, p)

(***************************************************************************)
(* InterviewScheduler._add_gap_constraints.                                *)
(***************************************************************************)
PanelPairs(a) == {pq \in PanelSet(a) \X PanelSet(a) : pq[1] # pq[2]}

\* What follows[(p1, p2)] = True enforces: p2 starts after p1 ends, within the
\* gap, and every third panel has before or after true.
FollowsEnforced(a, r, p1, p2) ==
    /\ r[p2] >= r[p1] + a.panels[p1]
    /\ r[p2] <= r[p1] + a.panels[p1] + max_gap_slots(a)
    /\ \A p3 \in PanelSet(a) :
          (p3 # p1 /\ p3 # p2) =>
              \E before, after \in BOOLEAN :
                  /\ before => r[p3] < r[p1] + a.panels[p1]
                  /\ after => r[p3] >= r[p2]
                  /\ before \/ after

\* The topology constraints on the set of true follows variables.
\* Mutant: a chain has at least one follows edge, also for a single panel.
ChainTopologyNeedsEdge(a, follows) ==
    /\ \A p \in PanelSet(a) :
          /\ Cardinality({pq \in follows : pq[2] = p}) <= 1
          /\ Cardinality({pq \in follows : pq[1] = p}) <= 1
    /\ Cardinality(follows) >= 1
    /\ Cardinality(follows) = Cardinality(PanelSet(a)) - 1

ChainTopology(a, follows) ==
    /\ \A p \in PanelSet(a) :
          /\ Cardinality({pq \in follows : pq[2] = p}) <= 1
          /\ Cardinality({pq \in follows : pq[1] = p}) <= 1
    /\ Cardinality(follows) = Cardinality(PanelSet(a)) - 1

\* A follows variable can be true only where what it enforces holds, so the true
\* ones are a subset of those pairs.
GapConstraints(a, r) ==
    \E follows \in SUBSET {pq \in PanelPairs(a) : FollowsEnforced(a, r, pq[1], pq[2])} :
        ChainTopology(a, follows)

(***************************************************************************)
(* InterviewScheduler._add_position_constraints.                           *)
(***************************************************************************)
PositionFirst(a, r, panel) ==
    \A other \in PanelSet(a) : other # panel => r[panel] <= r[other]

PositionLast(a, r, panel) ==
    \A other \in PanelSet(a) : other # panel => r[panel] >= r[other] + a.panels[other]

\* Mutant: before_var is enforced when true and left free when false.
PositionIndexOneWay(a, r, panel, position) ==
    \E before_var \in [PanelSet(a) \ {panel} -> BOOLEAN] :
        /\ \A other \in PanelSet(a) \ {panel} :
              before_var[other] => r[other] + a.panels[other] <= r[panel]
        /\ CountTrue(before_var) = position

PositionIndex(a, r, panel, position) ==
    \E before_var \in [PanelSet(a) \ {panel} -> BOOLEAN] :
        /\ \A other \in PanelSet(a) \ {panel} :
              /\ before_var[other] => r[other] + a.panels[other] <= r[panel]
              /\ ~before_var[other] => r[panel] < r[other] + a.panels[other]
        /\ CountTrue(before_var) = position

PositionConstraint(a, r, pin) ==
    CASE pin.position.type = "str" /\ pin.position.str = "first" -> PositionFirst(a, r, pin.panel)
      [] pin.position.type = "str" /\ pin.position.str = "last" -> PositionLast(a, r, pin.panel)
      [] pin.position.type = "int" -> PositionIndex(a, r, pin.panel, pin.position.int)
      [] OTHER -> TRUE

PositionConstraints(a, r) ==
    \A i \in DOMAIN a.position_constraints : PositionConstraint(a, r, a.position_constraints[i])

(***************************************************************************)
(* InterviewScheduler._add_panel_conflict_constraints.                     *)
(***************************************************************************)
\* Mutant: one AddNoOverlap per panel of the group instead of one for the group.
ConflictGroupPerPanel(a, st, group) ==
    \A i \in DOMAIN group : \A c1, c2 \in Candidates(a) :
        c1 # c2 =>
            NoOverlap2(st[c1][group[i]], a.panels[group[i]], st[c2][group[i]], a.panels[group[i]])

ConflictGroupNoOverlap(a, st, group) ==
    \A i, j \in DOMAIN group : \A c1, c2 \in Candidates(a) :
        (i # j \/ c1 # c2) =>
            NoOverlap2(st[c1][group[i]], a.panels[group[i]], st[c2][group[j]], a.panels[group[j]])

PanelConflictConstraints(a, st) ==
    \A g \in DOMAIN a.panel_conflicts : ConflictGroupNoOverlap(a, st, a.panel_conflicts[g])

(***************************************************************************)
(* InterviewScheduler._add_order_constraints: the values the break         *)
(* variables of one candidate can take.                                    *)
(***************************************************************************)
OrderPairs(a) == 1 .. (Len(a.order) - 1)

\* Mutant: the preferred order is a hard constraint, no pair may be broken.
BreakEnforcedOrderHard(a, r, i, break_var) ==
    LET p1 == a.order[i]
        p2 == a.order[i + 1]
    IN ~break_var /\ r[p1] + a.panels[p1] <= r[p2]

BreakEnforced(a, r, i, break_var) ==
    LET p1 == a.order[i]
        p2 == a.order[i + 1]
    IN /\ ~break_var => r[p1] + a.panels[p1] <= r[p2]
       /\ break_var => r[p2] + a.panels[p2] <= r[p1]

BreakChoices(a, r) ==
    {b \in [OrderPairs(a) -> BOOLEAN] : \A i \in OrderPairs(a) : BreakEnforced(a, r, i, b[i])}

OrderConstraints(a, r) == BreakChoices(a, r) # {}

(***************************************************************************)
(* InterviewScheduler._set_objective.                                      *)
(***************************************************************************)
\* Mutant: a weight that a makespan of the whole day reaches.
BIGTooSmall(a) == a.slots_per_day

BIG(a) == (a.slots_per_day + 1) * 1000

Objective(a, num_breaks, makespan) == num_breaks * BIG(a) + makespan

MinOf(S) == CHOOSE x \in S : \A y \in S : x <= y

\* makespan is a variable in 0 .. slots_per_day, at least every session's end.
MakespanChoices(a, st) ==
    {m \in 0 .. a.slots_per_day :
        \A c \in Candidates(a) : \A p \in PanelSet(a) : m >= End(a, st[c], p)}

\* num_breaks is the sum of all break variables: the sums of one count per candidate.
RowBreakCounts(a, r) == {CountTrue(b) : b \in BreakChoices(a, r)}

RECURSIVE SumChoices(_, _, _)
SumChoices(a, st, cands) ==
    IF cands = {} THEN {0}
    ELSE LET c == CHOOSE x \in cands : TRUE
         IN {n + m : n \in RowBreakCounts(a, st[c]), m \in SumChoices(a, st, cands \ {c})}

NumBreaksChoices(a, st) == SumChoices(a, st, Candidates(a))

ObjectiveChoices(a, st) ==
    {Objective(a, nb, m) : nb \in NumBreaksChoices(a, st), m \in MakespanChoices(a, st)}

(***************************************************************************)
(* The model solve() builds: the rows that satisfy the constraints on one  *)
(* candidate, and the assignments of such rows that satisfy the ones       *)
(* across candidates.                                                      *)
(***************************************************************************)
RowConstraints(a, r) ==
    /\ CandidateNoOverlap(a, r)
    /\ AvailabilityConstraints(a, r)
    /\ GapConstraints(a, r)
    /\ PositionConstraints(a, r)
    /\ OrderConstraints(a, r)

CrossConstraints(a, st) ==
    /\ PanelNoOverlap(a, st)
    /\ PanelConflictConstraints(a, st)
    /\ MakespanChoices(a, st) # {}

ModelConstraints(a, st) ==
    /\ \A c \in Candidates(a) : RowConstraints(a, st[c])
    /\ CrossConstraints(a, st)

Solutions(a) ==
    LET rows == {r \in RowDomain(a) : RowConstraints(a, r)}
    IN {st \in [Candidates(a) -> rows] : CrossConstraints(a, st)}

BestObjective(a, st) == MinOf(ObjectiveChoices(a, st))

\* Mutant: every assignment counts as a best one.
OptimalSolutionsAnyAssignment(a, sols) == sols

OptimalSolutions(a, sols) ==
    IF sols = {} THEN {}
    ELSE LET best == MinOf({BestObjective(a, st) : st \in sols})
         IN {st \in sols : BestObjective(a, st) = best}

(***************************************************************************)
(* create_scheduler_from_config (cli.py): durations in minutes become      *)
(* slots, clock times become slot indices, and the constructor is called.  *)
(***************************************************************************)
time_to_slot(start_hour, start_minute, slot_duration, hour, minute) ==
    FloorDiv((hour - start_hour) * 60 + (minute - start_minute), slot_duration)

\* A duration that is not a whole number of slots raises.
DurationsDivisible(cfg) ==
    \A p \in DOMAIN cfg.panels : cfg.panels[p] % cfg.slot_duration_minutes = 0

ConfigPanels(cfg) ==
    [p \in DOMAIN cfg.panels |-> FloorDiv(cfg.panels[p], cfg.slot_duration_minutes)]

ConfigSlotsPerDay(cfg) ==
    FloorDiv((cfg.end_time[1] - cfg.start_time[1]) * 60 + (cfg.end_time[2] - cfg.start_time[2]),
             cfg.slot_duration_minutes)

\* parse_availability_windows: one "HH:MM-HH:MM" window, as <<h1, m1, h2, m2>>.
ParsedWindow(cfg, w) ==
    <<time_to_slot(cfg.start_time[1], cfg.start_time[2], cfg.slot_duration_minutes, w[1], w[2]),
      time_to_slot(cfg.start_time[1], cfg.start_time[2], cfg.slot_duration_minutes, w[3], w[4])>>

ParsedWindowsOK(cfg) ==
    \A p \in DOMAIN cfg.availabilities : \A i \in DOMAIN cfg.availabilities[p] :
        LET w == ParsedWindow(cfg, cfg.availabilities[p][i]) IN ~(w[1] >= w[2])

ConfigArgs(cfg) ==
    [num_candidates |-> cfg.num_candidates,
     panels |-> ConfigPanels(cfg),
     panel_keys |-> cfg.panel_keys,
     order |-> cfg.order,
     availabilities |->
        [p \in DOMAIN cfg.availabilities |->
            [i \in DOMAIN cfg.availabilities[p] |-> ParsedWindow(cfg, cfg.availabilities[p][i])]],
     slots_per_day |-> ConfigSlotsPerDay(cfg),
     max_gap_minutes |-> cfg.max_gap_minutes,
     start_time_hour |-> cfg.start_time[1],
     start_time_minute |-> cfg.start_time[2],
     slot_duration_minutes |-> cfg.slot_duration_minutes,
     position_constraints |-> cfg.position_constraints,
     panel_conflicts |-> cfg.panel_conflicts]

\* The first thing that raises while the scheduler is created from cfg, "" if nothing does.
ConfigError(cfg) ==
    IF ~DurationsDivisible(cfg) THEN "BadDuration"
    ELSE IF ~ParsedWindowsOK(cfg) THEN "BadWindow"
    ELSE validate_parameters(ConfigArgs(cfg))

(***************************************************************************)
(* The problems the model is run on.  Each family varies some arguments    *)
(* of a base problem with the panels A, B and Lunch.                       *)
(***************************************************************************)
PanelKeys == <<"A", "B", "Lunch">>
PanelNames == Range(PanelKeys)

FullDay == <<<<0, DaySlots>>>>
SplitDay == <<<<0, 2>>, <<2, DaySlots>>>>
OverlappingWindows == <<<<0, 3>>, <<1, DaySlots>>>>
LateWindow == <<<<DaySlots - 2, DaySlots>>>>
NoWindows == <<>>

BaseArgs ==
    [num_candidates |-> 1,
     panels |-> [p \in PanelNames |-> 1],
     panel_keys |-> PanelKeys,
     order |-> <<>>,
     availabilities |-> [p \in PanelNames |-> FullDay],
     slots_per_day |-> DaySlots,
     max_gap_minutes |-> 15,
     start_time_hour |-> 8,
     start_time_minute |-> 30,
     slot_duration_minutes |-> 15,
     position_constraints |-> <<>>,
     panel_conflicts |-> <<>>]

Durations == [PanelNames -> 0 .. MaxDuration]
GapMinutes == {0, 15, 20}
Orders == {<<>>, <<"A", "B", "Lunch">>, <<"B", "A">>, <<"A", "A">>}

\* One candidate; durations, gap and preferred order vary.
GapProblems ==
    {[BaseArgs EXCEPT !.panels = d, !.max_gap_minutes = g, !.order = o] :
        d \in Durations, g \in GapMinutes, o \in Orders}

\* One candidate; the windows of A and Lunch and the duration of A vary.
WindowChoices == {FullDay, SplitDay, OverlappingWindows, LateWindow, NoWindows}

WindowProblems ==
    {[BaseArgs EXCEPT !.panels["A"] = dA, !.availabilities["A"] = wA,
                      !.availabilities["Lunch"] = wL, !.max_gap_minutes = g] :
        dA \in 1 .. MaxDuration, wA \in WindowChoices, wL \in WindowChoices, g \in {0, 15}}

\* One candidate; position constraints vary.
Positions == {StrPos("first"), StrPos("last")} \cup {IntPos(k) : k \in 0 .. 2}

PinChoices ==
    {<<Pin(p, pos)>> : p \in {"A", "Lunch"}, pos \in Positions}
    \cup {<<Pin("A", StrPos("first")), Pin("Lunch", StrPos("last"))>>,
          <<Pin("A", StrPos("first")), Pin("B", StrPos("first"))>>,
          <<Pin("A", IntPos(1)), Pin("B", IntPos(1))>>}

PinProblems ==
    {[BaseArgs EXCEPT !.panels = d, !.position_constraints = pins, !.order = o] :
        d \in [PanelNames -> 0 .. 1], pins \in PinChoices, o \in {<<>>, <<"B", "A">>}}

\* Several candidates; resource-conflict groups vary.
ConflictChoices ==
    {<<>>, <<<<"A", "B">>>>, <<<<"A", "Lunch">>>>, <<<<"A", "B", "Lunch">>>>,
     <<<<"A", "B">>, <<"B", "Lunch">>>>}

CrossDurations ==
    {[p \in PanelNames |-> 1],
     [p \in PanelNames |-> IF p = "A" THEN MaxDuration ELSE 1],
     [p \in PanelNames |-> IF p = "Lunch" THEN MaxDuration ELSE 1],
     [p \in PanelNames |-> IF p = "B" THEN 0 ELSE 1]}

\* Two candidates with and without a slot of slack; more candidates back to back.
CrossGaps(n) == IF n = 2 THEN {0, 15} ELSE {0}

\* Two candidates with every choice of durations; more candidates with one-slot panels.
CrossDurationsOf(n) == IF n = 2 THEN CrossDurations ELSE {[p \in PanelNames |-> 1]}

CrossProblems ==
    UNION {{[BaseArgs EXCEPT !.num_candidates = n, !.panels = d, !.panel_conflicts = g,
                             !.max_gap_minutes = m] :
               d \in CrossDurationsOf(n), g \in ConflictChoices, m \in CrossGaps(n)} :
           n \in 2 .. MaxCandidates}

\* Arguments the validator is to reject, with the well-formed choice of each beside them.
OrderChoicesV == {<<>>, <<"A", "Z">>}

AvailabilityChoicesV ==
    {[p \in PanelNames |-> FullDay],
     [p \in PanelNames \ {"B"} |-> FullDay],
     [p \in PanelNames |-> IF p = "B" THEN NoWindows ELSE FullDay],
     [p \in PanelNames |-> IF p = "B" THEN <<<<2, 2>>>> ELSE FullDay],
     [p \in PanelNames |-> IF p = "B" THEN <<<<0, 2>>, <<0 - 1, 2>>>> ELSE FullDay],
     [p \in PanelNames |-> IF p = "B" THEN <<<<0, DaySlots + 1>>>> ELSE FullDay],
     [p \in PanelNames \cup {"Z"} |-> IF p = "Z" THEN <<<<3, 1>>>> ELSE FullDay]}

PinChoicesV ==
    {<<>>,
     <<Pin("Z", StrPos("first"))>>,
     <<Pin("A", StrPos("middle"))>>,
     <<Pin("A", IntPos(0 - 1))>>,
     <<Pin("A", IntPos(3))>>,
     <<Pin("A", [type |-> "other", str |-> "", int |-> 0])>>,
     <<Pin("A", StrPos("last")), Pin("Z", IntPos(0))>>}

ConflictChoicesV ==
    {<<>>, <<<<"A">>>>, <<<<>>>>, <<<<"A", "Z">>>>, <<<<"A", "A">>>>,
     <<<<"A", "B">>, <<"B", "Lunch", "B">>>>}

MalformedProblems ==
    {[BaseArgs EXCEPT !.order = o, !.availabilities = w, !.position_constraints = pins,
                      !.panel_conflicts = g] :
        o \in OrderChoicesV, w \in AvailabilityChoicesV, pins \in PinChoicesV,
        g \in ConflictChoicesV}

\* Scenario F of the specification: four panels of one slot, X pinned to position 2.
ScenarioF ==
    [BaseArgs EXCEPT !.panels = [p \in {"W", "X", "Y", "Z"} |-> 1],
                     !.panel_keys = <<"W", "X", "Y", "Z">>,
                     !.availabilities = [p \in {"W", "X", "Y", "Z"} |-> <<<<0, 4>>>>],
                     !.slots_per_day = 4,
                     !.position_constraints = <<Pin("X", IntPos(2))>>]

\* A preferred order of one entry: there is no pair to keep or break.
SingleOrderProblems ==
    {[BaseArgs EXCEPT !.order = <<"B">>, !.panels["A"] = d, !.max_gap_minutes = g] :
        d \in 1 .. MaxDuration, g \in {0, 15}}

\* Scenario D: one panel, no preferred order.
ScenarioD ==
    [BaseArgs EXCEPT !.panels = [p \in {"Intro"} |-> 2],
                     !.panel_keys = <<"Intro">>,
                     !.availabilities = [p \in {"Intro"} |-> <<<<0, 4>>>>],
                     !.slots_per_day = 4]

\* Scenario D with slots of one hour: its three schedules end an hour apart.
ScenarioDHourly ==
    [ScenarioD EXCEPT !.slot_duration_minutes = 60, !.max_gap_minutes = 60]

\* Two panels in a day of three slots: schedules with and without a wait.
IdleProblem ==
    [BaseArgs EXCEPT !.panels = [p \in {"A", "B"} |-> 1],
                     !.panel_keys = <<"A", "B">>,
                     !.order = <<"A", "B">>,
                     !.availabilities = [p \in {"A", "B"} |-> <<<<0, 3>>>>],
                     !.slots_per_day = 3]

\* Scenario E: a panel with two windows, zero gap.
ScenarioE ==
    [BaseArgs EXCEPT !.panels = [p \in {"A", "B"} |-> 2],
                     !.panel_keys = <<"A", "B">>,
                     !.order = <<"A", "B">>,
                     !.availabilities = [A |-> <<<<0, 2>>, <<10, 12>>>>, B |-> <<<<0, 12>>>>],
                     !.slots_per_day = 12,
                     !.max_gap_minutes = 0]

\* A day of one slot: a panel of several slots does not fit in it.
ShortDay == <<<<0, 1>>>>

ShortDayProblems ==
    {[BaseArgs EXCEPT !.slots_per_day = 1, !.panels["A"] = d,
                      !.availabilities = [p \in PanelNames |-> ShortDay]] :
        d \in 1 .. MaxDuration}

Problems ==
    GapProblems \cup WindowProblems \cup PinProblems \cup CrossProblems
    \cup MalformedProblems \cup ShortDayProblems \cup SingleOrderProblems
    \cup {ScenarioD, ScenarioDHourly, IdleProblem, ScenarioE, ScenarioF}

(***************************************************************************)
(* The configurations given to create_scheduler_from_config: a day from    *)
(* 08:30 to 09:30, durations in minutes and windows as clock times.        *)
(***************************************************************************)
BaseConfig ==
    [kind |-> "config",
     num_candidates |-> 1,
     panels |-> [p \in PanelNames |-> 15],
     panel_keys |-> PanelKeys,
     order |-> <<>>,
     availabilities |-> [p \in PanelNames |-> <<<<8, 30, 9, 30>>>>],
     start_time |-> <<8, 30>>,
     end_time |-> <<9, 30>>,
     slot_duration_minutes |-> 15,
     max_gap_minutes |-> 15,
     position_constraints |-> <<>>,
     panel_conflicts |-> <<>>]

ConfigMinutes == {0, 15, 20, 30, 90}

ConfigWindows ==
    {<<<<8, 30, 9, 30>>>>, <<<<8, 40, 9, 20>>>>, <<<<9, 0, 8, 30>>>>,
     <<<<8, 30, 10, 0>>>>, <<<<8, 0, 9, 0>>>>, <<<<8, 30, 9, 0>>, <<9, 0, 9, 30>>>>}

Configs ==
    {[BaseConfig EXCEPT !.panels["A"] = dA, !.panels["Lunch"] = dL,
                        !.availabilities["A"] = wA, !.slot_duration_minutes = W] :
        dA \in ConfigMinutes, dL \in ConfigMinutes, wA \in ConfigWindows, W \in {15, 30}}

(***************************************************************************)
(* Text.  A string is modelled as the sequence of its characters; the      *)
(* literals below are the strings the code writes or tests for.            *)
(***************************************************************************)
DigitChars == <<"0", "1", "2", "3", "4", "5", "6", "7", "8", "9">>

DigitValue(ch) == (CHOOSE i \in DOMAIN DigitChars : DigitChars[i] = ch) - 1

\* int(t) for a text of decimal digits.
RECURSIVE IntValue(_)
IntValue(t) ==
    IF t = <<>> THEN 0
    ELSE IntValue(SubSeq(t, 1, Len(t) - 1)) * 10 + DigitValue(t[Len(t)])

\* str(n) for n >= 0: the decimal digits, most significant first.
RECURSIVE DecimalText(_)
DecimalText(n) ==
    IF n < 10 THEN <<DigitChars[n + 1]>>
    ELSE DecimalText(n \div 10) \o <<DigitChars[(n % 10) + 1]>>

\* f"{n:02d}": zero-padded to two characters, the sign counted in the width.
Format02d(n) ==
    IF n < 0 THEN <<"-">> \o DecimalText(0 - n)
    ELSE IF n < 10 THEN <<"0">> \o DecimalText(n)
    ELSE DecimalText(n)

(***************************************************************************)
(* parse_duration (cli.py), on texts of digits, letters and blanks.        *)
(***************************************************************************)
\* str.lower().
Lower(t) ==
    LET LowerChar(ch) ==
            CASE ch = "H" -> "h" [] ch = "M" -> "m" [] ch = "I" -> "i" [] ch = "N" -> "n"
              [] OTHER -> ch
    IN [i \in DOMAIN t |-> LowerChar(t[i])]

\* str.strip().
Strip(t) ==
    LET kept == {i \in DOMAIN t : t[i] # " "}
    IN IF kept = {} THEN <<>>
       ELSE SubSeq(t, CHOOSE i \in kept : \A j \in kept : i <= j,
                      CHOOSE i \in kept : \A j \in kept : i >= j)

\* str.isdigit(); int(t) succeeds on the same texts once stripped.
IsDigit(t) == t # <<>> /\ \A i \in DOMAIN t : t[i] \in Range(DigitChars)

\* sub in t.
Contains(t, sub) ==
    \E i \in 1 .. (Len(t) - Len(sub) + 1) : SubSeq(t, i, i + Len(sub) - 1) = sub

\* t.replace(sub, ''): the occurrences of sub are dropped, left to right.
RECURSIVE Remove(_, _)
Remove(t, sub) ==
    IF t = <<>> THEN <<>>
    ELSE IF Len(t) >= Len(sub) /\ SubSeq(t, 1, Len(sub)) = sub
         THEN Remove(SubSeq(t, Len(sub) + 1, Len(t)), sub)
         ELSE <<t[1]>> \o Remove(Tail(t), sub)

\* t.split(ch).
RECURSIVE Split(_, _)
Split(t, ch) ==
    IF ~Contains(t, <<ch>>) THEN <<t>>
    ELSE LET i == CHOOSE k \in DOMAIN t : t[k] = ch /\ \A j \in 1 .. (k - 1) : t[j] # ch
         IN <<SubSeq(t, 1, i - 1)>> \o Split(SubSeq(t, i + 1, Len(t)), ch)

Minutes(n) == [ok |-> TRUE, minutes |-> n]
ValueError == [ok |-> FALSE, minutes |-> 0]

parse_duration(duration_str) ==
    LET s == Strip(Lower(duration_str))
        parts == Split(s, "h")
        remaining == Strip(Remove(parts[2], <<"m", "i", "n">>))
        only_hours == Strip(Remove(s, <<"h">>))
        only_minutes == Strip(Remove(s, <<"m", "i", "n">>))
    IN IF IsDigit(s) THEN Minutes(IntValue(s))
       ELSE IF Contains(s, <<"h">>)
            THEN IF Contains(s, <<"m", "i", "n">>)
                 THEN IF ~IsDigit(Strip(parts[1])) THEN ValueError
                      ELSE IF remaining = <<>> THEN Minutes(IntValue(Strip(parts[1])) * 60)
                      ELSE IF ~IsDigit(remaining) THEN ValueError
                      ELSE Minutes(IntValue(Strip(parts[1])) * 60 + IntValue(remaining))
                 ELSE IF IsDigit(only_hours) THEN Minutes(IntValue(only_hours) * 60)
                      ELSE ValueError
       ELSE IF Contains(s, <<"m", "i", "n">>)
            THEN IF IsDigit(only_minutes) THEN Minutes(IntValue(only_minutes))
                 ELSE ValueError
       ELSE ValueError

(***************************************************************************)
(* InterviewScheduler.time_to_slot and slot_to_time.                       *)
(***************************************************************************)
scheduler_time_to_slot(a, hour, minute) ==
    FloorDiv((hour - a.start_time_hour) * 60 + (minute - a.start_time_minute),
             a.slot_duration_minutes)

\* Mutant: the start minute of the day is left out of the printed time.
slot_to_time_no_start_minute(a, slot) ==
    LET total_minutes == slot * a.slot_duration_minutes
        hour == a.start_time_hour + FloorDiv(total_minutes, 60)
        minute == total_minutes % 60
    IN Format02d(hour) \o <<":">> \o Format02d(minute)

slot_to_time(a, slot) ==
    LET total_minutes == slot * a.slot_duration_minutes + a.start_time_minute
        hour == a.start_time_hour + FloorDiv(total_minutes, 60)
        minute == total_minutes % 60
    IN Format02d(hour) \o <<":">> \o Format02d(minute)

(***************************************************************************)
(* InterviewScheduler.get_candidate_schedule.                              *)
(***************************************************************************)
Session(a, r, panel) ==
    [panel |-> panel,
     start_time |-> slot_to_time(a, r[panel]),
     end_time |-> slot_to_time(a, r[panel] + a.panels[panel]),
     start_slot |-> r[panel],
     end_slot |-> r[panel] + a.panels[panel],
     duration_minutes |-> a.panels[panel] * a.slot_duration_minutes]

\* list.sort(key=start_slot) is stable: x goes after every element whose key is
\* not greater than its own.
RECURSIVE InsertByStart(_, _)
InsertByStart(sorted, x) ==
    IF sorted = <<>> THEN <<x>>
    ELSE IF sorted[Len(sorted)].start_slot <= x.start_slot THEN Append(sorted, x)
    ELSE Append(InsertByStart(SubSeq(sorted, 1, Len(sorted) - 1), x), sorted[Len(sorted)])

RECURSIVE SortByStart(_)
SortByStart(sessions) ==
    IF sessions = <<>> THEN <<>>
    ELSE InsertByStart(SortByStart(SubSeq(sessions, 1, Len(sessions) - 1)),
                       sessions[Len(sessions)])

\* Mutant: the gap is measured from the start of the previous session.
WithGapBeforeFromStart(session, previous, a) ==
    [panel |-> session.panel,
     start_time |-> session.start_time,
     end_time |-> session.end_time,
     start_slot |-> session.start_slot,
     end_slot |-> session.end_slot,
     duration_minutes |-> session.duration_minutes,
     gap_before |-> (session.start_slot - previous.start_slot) * a.slot_duration_minutes]

WithGapBefore(session, previous, a) ==
    [panel |-> session.panel,
     start_time |-> session.start_time,
     end_time |-> session.end_time,
     start_slot |-> session.start_slot,
     end_slot |-> session.end_slot,
     duration_minutes |-> session.duration_minutes,
     gap_before |-> (session.start_slot - previous.end_slot) * a.slot_duration_minutes]

get_candidate_schedule(a, found, st, candidate_id) ==
    IF ~found THEN <<>>
    ELSE LET sessions == SortByStart([i \in DOMAIN a.panel_keys |->
                                          Session(a, st[candidate_id], a.panel_keys[i])])
         IN [i \in DOMAIN sessions |->
                IF i = 1 THEN sessions[i]
                ELSE WithGapBefore(sessions[i], sessions[i - 1], a)]

(***************************************************************************)
(* InterviewScheduler.get_solution_summary and _is_order_broken.           *)
(***************************************************************************)
MaxOf(S) == CHOOSE x \in S : \A y \in S : x >= y

is_order_broken(a, st, candidate, order_index) ==
    LET p1 == a.order[order_index]
        p2 == a.order[order_index + 1]
    IN st[candidate][p1] + a.panels[p1] > st[candidate][p2]

\* Mutant: without a solution the summary still carries a count of breaks.
get_solution_summary_with_count(a, found, stat, st) ==
    IF ~found THEN [status |-> "No solution found", order_breaks |-> 0]
    ELSE [status |-> stat]

get_solution_summary(a, found, stat, st) ==
    IF ~found THEN [status |-> "No solution found"]
    ELSE LET num_breaks == Cardinality({ci \in Candidates(a) \X OrderPairs(a) :
                                            is_order_broken(a, st, ci[1], ci[2])})
             makespan == MaxOf({st[c][p] + a.panels[p] :
                                    c \in Candidates(a), p \in PanelSet(a)})
         IN [status |-> stat,
             order_breaks |-> num_breaks,
             day_ends_at |-> slot_to_time(a, makespan),
             max_gap_enforced |-> DecimalText(a.max_gap_minutes) \o <<" minutes">>]

(***************************************************************************)
(* InterviewScheduler.export_to_csv.  The value is csv_data, the rows      *)
(* handed to csv.writer, each a sequence of cells.                         *)
(***************************************************************************)
\* Mutant: a session also marks the slot at which it ends.
MarksSlotInclusive(a, r, panel, slot) ==
    /\ r[panel] <= slot
    /\ slot <= r[panel] + a.panels[panel]
    /\ slot < a.slots_per_day

\* for slot in range(start_slot, end_slot): if slot < slots_per_day.
MarksSlot(a, r, panel, slot) ==
    /\ r[panel] <= slot
    /\ slot < r[panel] + a.panels[panel]
    /\ slot < a.slots_per_day

\* schedule_matrix[slot][c] after the panels up to index n were filled in, in
\* the order of the panels dictionary: a later panel overwrites an earlier one.
RECURSIVE schedule_matrix(_, _, _, _)
schedule_matrix(a, r, slot, n) ==
    IF n = 0 THEN ""
    ELSE IF MarksSlot(a, r, a.panel_keys[n], slot) THEN a.panel_keys[n]
    ELSE schedule_matrix(a, r, slot, n - 1)

CsvHeader(a, date) ==
    <<date>> \o [c \in 1 .. a.num_candidates |-> <<"CANDIDATE ">> \o DecimalText(c)]

CsvRow(a, st, slot) ==
    <<slot_to_time(a, slot) \o <<"-">> \o slot_to_time(a, slot + 1)>>
    \o [c \in 1 .. a.num_candidates |->
            schedule_matrix(a, st[c - 1], slot, Len(a.panel_keys))]

export_to_csv(a, found, st, date) ==
    IF ~found THEN [ok |-> FALSE, error |-> "No solution found. Call solve() first."]
    ELSE [ok |-> TRUE,
          csv_data |-> <<CsvHeader(a, date)>>
                       \o [k \in 1 .. a.slots_per_day |-> CsvRow(a, st, k - 1)]]

CsvDates == {"DATE"}

(***************************************************************************)
(* api/app.py, schedule(): the response to POST /api/schedule.  The        *)
(* session id, a random UUID, is left out.                                 *)
(***************************************************************************)
NoFeasibleSolutions == "No feasible solutions found. Try relaxing constraints."

schedule(a, err, found, stat, st) ==
    IF err # "" THEN [code |-> 500, error |-> err]
    ELSE IF ~found THEN [code |-> 400, error |-> NoFeasibleSolutions]
    ELSE [code |-> 200,
          success |-> TRUE,
          solution |-> [summary |-> get_solution_summary(a, found, stat, st),
                        schedules |-> [c \in Candidates(a) |->
                                          get_candidate_schedule(a, found, st, c)]]]

(***************************************************************************)
(* The models of all accepted problems, built once.                        *)
(***************************************************************************)
AcceptedArgs ==
    {a \in Problems : validate_parameters(a) = ""}
    \cup {ConfigArgs(cfg) : cfg \in {c \in Configs : ConfigError(c) = ""}}

SolutionTable == [a \in AcceptedArgs |-> Solutions(a)]

OptimalTable == [a \in AcceptedArgs |-> OptimalSolutions(a, SolutionTable[a])]

(***************************************************************************)
(* The state machine.                                                      *)
(***************************************************************************)
Init ==
    /\ \/ config = NoConfig /\ args \in Problems /\ phase = "args"
       \/ config \in Configs /\ args = NoConfig /\ phase = "config"
    /\ error = ""
    /\ status = "NONE"
    /\ solution_found = FALSE
    /\ start_vars = NoValues
    /\ objective = NoValues
    /\ output = NoOutput
    /\ model = NoModel
    /\ request = NoRequest
    /\ temp_files = NoSessions
    /\ issued = {}
    /\ now = 0

\* InterviewScheduler(...): the constructor stores its arguments and validates them.
Construct ==
    /\ phase = "args"
    /\ error' = validate_parameters(args)
    /\ phase' = IF validate_parameters(args) = "" THEN "ready" ELSE "rejected"
    /\ UNCHANGED <<config, args, status, solution_found, start_vars, objective, output, model, web>>

\* create_scheduler_from_config(config).
CreateFromConfig ==
    /\ phase = "config"
    /\ error' = ConfigError(config)
    /\ IF ConfigError(config) = ""
       THEN phase' = "ready" /\ args' = ConfigArgs(config)
       ELSE phase' = "rejected" /\ UNCHANGED args
    /\ UNCHANGED <<config, status, solution_found, start_vars, objective, output, model, web>>

\* cp_model.CpModel(): an empty model, whatever self.model held before.
\* Mutant: the model of the previous solve() is kept.
CpModelKept(previous) == previous

CpModel(previous) == <<>>

\* The constraint groups solve() adds to the model, in the order of its calls.
Encoded(m) ==
    m \o <<"start_vars", "basic", "gap", "position", "panel_conflict", "order", "objective">>

\* solve() is called: a new model and new start variables replace the old ones;
\* the solver then runs up to max_time_seconds.
SolveBegin ==
    /\ phase \in {"ready", "solved"}
    /\ phase' = "solving"
    /\ start_vars' = NoValues
    /\ output' = NoOutput
    /\ model' = Encoded(CpModel(model))
    /\ UNCHANGED <<config, args, error, status, solution_found, objective, web>>

\* The solver returns an assignment: a best one with OPTIMAL, any with FEASIBLE.
SolveFound ==
    /\ phase = "solving"
    /\ \E st \in SolutionTable[args] :
            /\ start_vars' = st
            /\ \/ st \in OptimalTable[args] /\ status' = "OPTIMAL"
               \/ status' = "FEASIBLE"
    /\ solution_found' = TRUE
    /\ output' = [op |-> "solve", value |-> TRUE]
    /\ phase' = "solved"
    /\ UNCHANGED <<config, args, error, objective, model, web>>

\* The solver proves that the model has no assignment.
SolveInfeasible ==
    /\ phase = "solving"
    /\ ~ModelInvalid(args)
    /\ SolutionTable[args] = {}
    /\ status' = "INFEASIBLE"
    /\ solution_found' = FALSE
    /\ start_vars' = NoValues
    /\ output' = [op |-> "solve", value |-> FALSE]
    /\ phase' = "solved"
    /\ UNCHANGED <<config, args, error, objective, model, web>>

\* The solver refuses the model: a start variable has an empty domain.
SolveModelInvalid ==
    /\ phase = "solving"
    /\ ModelInvalid(args)
    /\ status' = "MODEL_INVALID"
    /\ solution_found' = FALSE
    /\ start_vars' = NoValues
    /\ output' = [op |-> "solve", value |-> FALSE]
    /\ phase' = "solved"
    /\ UNCHANGED <<config, args, error, objective, model, web>>

\* The time limit is hit before any assignment is found.
SolveUnknown ==
    /\ phase = "solving"
    /\ ~ModelInvalid(args)
    /\ status' = "UNKNOWN"
    /\ solution_found' = FALSE
    /\ start_vars' = NoValues
    /\ output' = [op |-> "solve", value |-> FALSE]
    /\ phase' = "solved"
    /\ UNCHANGED <<config, args, error, objective, model, web>>

\* get_candidate_schedule(candidate_id) on a scheduler that exists.
GetCandidateSchedule ==
    /\ phase \in {"ready", "solved"}
    /\ \E c \in Candidates(args) :
          output' = [op |-> "get_candidate_schedule", candidate_id |-> c,
                     value |-> get_candidate_schedule(args, solution_found, start_vars, c)]
    /\ UNCHANGED <<config, args, phase, error, status, solution_found, start_vars, objective, model, web>>

\* get_solution_summary().
GetSolutionSummary ==
    /\ phase \in {"ready", "solved"}
    /\ output' = [op |-> "get_solution_summary",
                  value |-> get_solution_summary(args, solution_found, status, start_vars)]
    /\ UNCHANGED <<config, args, phase, error, status, solution_found, start_vars, objective, model, web>>

\* export_to_csv(date=date) with no filename.
ExportToCsv ==
    /\ phase \in {"ready", "solved"}
    /\ \E date \in CsvDates :
          output' = [op |-> "export_to_csv", date |-> date,
                     value |-> export_to_csv(args, solution_found, start_vars, date)]
    /\ UNCHANGED <<config, args, phase, error, status, solution_found, start_vars, objective, model, web>>

\* POST /api/schedule: the scheduler was created from the request's configuration
\* and, if that raised nothing, solve() has returned.
ApiSchedule ==
    /\ config # NoConfig
    /\ phase \in {"rejected", "solved"}
    /\ output' = [op |-> "schedule",
                  value |-> schedule(args, error, solution_found, status, start_vars)]
    /\ UNCHANGED <<config, args, phase, error, status, solution_found, start_vars, objective, model, web>>

Next ==
    \/ Construct
    \/ CreateFromConfig
    \/ SolveBegin
    \/ SolveFound
    \/ SolveInfeasible
    \/ SolveModelInvalid
    \/ SolveUnknown

Spec == Init /\ [][Next]_vars

(***************************************************************************)
(* The scheduler with its callers: the same life, and what the reporting   *)
(* methods and the API handler return at each point of it.                 *)
(***************************************************************************)
OutputProblems == PinProblems \cup CrossProblems \cup ShortDayProblems \cup {ScenarioF}

InitOutput ==
    /\ \/ config = NoConfig /\ args \in OutputProblems /\ phase = "args"
       \/ config \in Configs /\ args = NoConfig /\ phase = "config"
    /\ error = ""
    /\ status = "NONE"
    /\ solution_found = FALSE
    /\ start_vars = NoValues
    /\ objective = NoValues
    /\ output = NoOutput
    /\ model = NoModel
    /\ request = NoRequest
    /\ temp_files = NoSessions
    /\ issued = {}
    /\ now = 0

NextOutput ==
    \/ Construct
    \/ CreateFromConfig
    \/ SolveBegin
    \/ SolveFound
    \/ SolveInfeasible
    \/ SolveModelInvalid
    \/ SolveUnknown
    \/ GetCandidateSchedule
    \/ GetSolutionSummary
    \/ ExportToCsv
    \/ ApiSchedule

SpecOutput == InitOutput /\ [][NextOutput]_vars

(***************************************************************************)
(* The objective alone: _set_objective applied to the num_breaks and       *)
(* makespan of two assignments of a model with S slots per day.            *)
(***************************************************************************)
MaxBreaks == 3
ObjectiveDays == {1, DaySlots, 34}

InitObjective ==
    /\ config = NoConfig
    /\ \E S \in ObjectiveDays : args = [BaseArgs EXCEPT !.slots_per_day = S]
    /\ phase = "objective"
    /\ error = ""
    /\ status = "NONE"
    /\ solution_found = FALSE
    /\ start_vars = NoValues
    /\ objective = NoValues
    /\ output = NoOutput
    /\ model = NoModel
    /\ request = NoRequest
    /\ temp_files = NoSessions
    /\ issued = {}
    /\ now = 0

Evaluated(a, num_breaks, makespan) ==
    [num_breaks |-> num_breaks, makespan |-> makespan,
     value |-> Objective(a, num_breaks, makespan)]

SetObjective ==
    /\ phase = "objective"
    /\ objective = NoValues
    /\ \E nb1, nb2 \in 0 .. MaxBreaks : \E m1, m2 \in 0 .. args.slots_per_day :
          objective' = <<Evaluated(args, nb1, m1), Evaluated(args, nb2, m2)>>
    /\ UNCHANGED <<config, args, phase, error, status, solution_found, start_vars, output, model, web>>

NextObjective == SetObjective

SpecObjective == InitObjective /\ [][NextObjective]_vars

(***************************************************************************)
(* The timeline alone: time_to_slot and slot_to_time of a scheduler whose  *)
(* day starts at H0:M0 and has slots of W minutes.                         *)
(***************************************************************************)
TimelineArgs ==
    {[BaseArgs EXCEPT !.start_time_hour = H0, !.start_time_minute = M0,
                      !.slot_duration_minutes = W] :
        H0 \in {0, 8, 19}, M0 \in {0, 30, 45}, W \in {15, 20, 60}}

ClockHours(a) ==
    {h \in (a.start_time_hour - 1) .. (a.start_time_hour + DaySlots + 1) : 0 <= h /\ h <= 23}

ClockMinutes == {0, 15, 20, 30, 40, 45}

InitTimeline ==
    /\ config = NoConfig
    /\ args \in TimelineArgs
    /\ phase = "timeline"
    /\ error = ""
    /\ status = "NONE"
    /\ solution_found = FALSE
    /\ start_vars = NoValues
    /\ objective = NoValues
    /\ output = NoOutput
    /\ model = NoModel
    /\ request = NoRequest
    /\ temp_files = NoSessions
    /\ issued = {}
    /\ now = 0

TimeToSlot ==
    /\ phase = "timeline"
    /\ \E h \in ClockHours(args), m \in ClockMinutes :
          output' = [op |-> "time_to_slot", hour |-> h, minute |-> m,
                     value |-> scheduler_time_to_slot(args, h, m)]
    /\ UNCHANGED <<config, args, phase, error, status, solution_found, start_vars, objective, model, web>>

SlotToTime ==
    /\ phase = "timeline"
    /\ \E k \in 0 .. args.slots_per_day :
          output' = [op |-> "slot_to_time", slot |-> k, value |-> slot_to_time(args, k)]
    /\ UNCHANGED <<config, args, phase, error, status, solution_found, start_vars, objective, model, web>>

NextTimeline == TimeToSlot \/ SlotToTime

SpecTimeline == InitTimeline /\ [][NextTimeline]_vars

(***************************************************************************)
(* The day of main(): seven panels, three candidates, 34 slots of 15        *)
(* minutes from 08:30, with the availabilities and preferred order of       *)
(* main() and no pins or conflict groups (scenario A), and the same with    *)
(* fewer candidates or max_gap_minutes = 0 (scenario C).  The rows of a     *)
(* seven-panel day are too many to enumerate: for these problems the model  *)
(* looks for assignments among the rows of a few panel sequences with at    *)
(* most one wait only, so it can find assignments of the model but cannot   *)
(* tell that there is none.                                                 *)
(***************************************************************************)
ScenarioKeys ==
    <<"Director", "Competencies", "Customers", "HR", "Lunch", "Team", "Goodbye">>

ScenarioA ==
    [num_candidates |-> 3,
     panels |-> [Director |-> 1, Competencies |-> 4, Customers |-> 4, HR |-> 3,
                 Lunch |-> 4, Team |-> 3, Goodbye |-> 2],
     panel_keys |-> ScenarioKeys,
     order |-> <<"Director", "Competencies", "Customers", "Lunch", "Team", "HR", "Goodbye">>,
     availabilities |-> [Director |-> <<<<0, 6>>>>,
                         Competencies |-> <<<<0, 10>>, <<14, 22>>, <<30, 34>>>>,
                         Customers |-> <<<<0, 22>>>>,
                         HR |-> <<<<0, 34>>>>,
                         Team |-> <<<<0, 34>>>>,
                         Goodbye |-> <<<<0, 34>>>>,
                         Lunch |-> <<<<13, 20>>>>],
     slots_per_day |-> 34,
     max_gap_minutes |-> 15,
     start_time_hour |-> 8,
     start_time_minute |-> 30,
     slot_duration_minutes |-> 15,
     position_constraints |-> <<>>,
     panel_conflicts |-> <<>>]

ScenarioC == [ScenarioA EXCEPT !.max_gap_minutes = 0]

ScenarioProblems ==
    {[ScenarioA EXCEPT !.num_candidates = n, !.max_gap_minutes = g] :
        n \in 1 .. 3, g \in {0, 15}}

\* The panel sequences tried for a candidate's day.
ChainSequences ==
    {<<"Director", "Competencies", "Customers", "Lunch", "Team", "HR", "Goodbye">>,
     <<"Director", "Competencies", "Customers", "HR", "Team", "Lunch", "Goodbye">>,
     <<"Director", "HR", "Competencies", "Customers", "Lunch", "Goodbye", "Team">>,
     <<"Customers", "Director", "HR", "Team", "Goodbye", "Lunch", "Competencies">>}

\* The start of the i-th panel of seq when the first starts at slot first and each
\* panel starts as the one before it ends, but for the panel at index wait,
\* which starts max_gap_slots later (no panel waits when wait = 0).
RECURSIVE ChainStart(_, _, _, _, _)
ChainStart(a, seq, first, wait, i) ==
    IF i = 1 THEN first
    ELSE ChainStart(a, seq, first, wait, i - 1) + a.panels[seq[i - 1]]
             + (IF i = wait THEN max_gap_slots(a) ELSE 0)

ChainRow(a, seq, first, wait) ==
    [p \in PanelSet(a) |->
        ChainStart(a, seq, first, wait, CHOOSE i \in DOMAIN seq : seq[i] = p)]

\* The rows of these sequences that are in the domains of the start variables and
\* satisfy the constraints on one candidate.
ChainRows(a) ==
    {r \in {ChainRow(a, seq, first, wait) :
                seq \in ChainSequences, first \in 0 .. a.slots_per_day,
                wait \in {0} \cup 2 .. Cardinality(PanelSet(a))} :
        /\ \A p \in PanelSet(a) : r[p] \in StartDomain(a, p)
        /\ RowConstraints(a, r)}

\* Assignments of the model of solve() made of such rows.
ChainSolutions(a) ==
    {st \in [Candidates(a) -> ChainRows(a)] : CrossConstraints(a, st)}

InitScenario ==
    /\ config = NoConfig
    /\ args \in ScenarioProblems
    /\ phase = "args"
    /\ error = ""
    /\ status = "NONE"
    /\ solution_found = FALSE
    /\ start_vars = NoValues
    /\ objective = NoValues
    /\ output = NoOutput
    /\ model = NoModel
    /\ request = NoRequest
    /\ temp_files = NoSessions
    /\ issued = {}
    /\ now = 0

\* The solver returns an assignment; whether it is a best one is not decided here.
SolveChainFound ==
    /\ phase = "solving"
    /\ \E st \in ChainSolutions(args) : start_vars' = st
    /\ status' = "FEASIBLE"
    /\ solution_found' = TRUE
    /\ output' = [op |-> "solve", value |-> TRUE]
    /\ phase' = "solved"
    /\ UNCHANGED <<config, args, error, objective, model, web>>

NextScenario ==
    \/ Construct
    \/ SolveBegin
    \/ SolveChainFound
    \/ SolveUnknown

SpecScenario == InitScenario /\ [][NextScenario]_vars

(***************************************************************************)
(* The HTTP adapters: web/app.py (POST /upload) and api/app.py             *)
(* (POST /api/schedule-multiple) solve the same scheduler up to            *)
(* max_attempts times and keep the solutions that are not similar to one   *)
(* already kept.                                                           *)
(***************************************************************************)
max_attempts == 10
WebMaxSolutions == 3
ApiMaxSolutions == {1, 3}

Abs(x) == IF x < 0 THEN 0 - x ELSE x

RECURSIVE SeqSum(_)
SeqSum(q) == IF q = <<>> THEN 0 ELSE SeqSum(SubSeq(q, 1, Len(q) - 1)) + q[Len(q)]

solution_data(a, stat, st, attempt) ==
    [summary |-> get_solution_summary(a, TRUE, stat, st),
     schedules |-> [c \in Candidates(a) |-> get_candidate_schedule(a, TRUE, st, c)],
     attempt |-> attempt + 1]

web_parse_time_to_minutes(time_str) ==
    LET parts == Split(time_str, ":") IN IntValue(parts[1]) * 60 + IntValue(parts[2])

\* The sum of session[key] over the sessions that have the key.
TotalOf(schedules, key) ==
    SetSum([c \in DOMAIN schedules |->
                SeqSum([i \in DOMAIN schedules[c] |->
                            IF key \in DOMAIN schedules[c][i] THEN schedules[c][i][key] ELSE 0])],
           DOMAIN schedules)

web_calculate_total_idle_time(schedules) == TotalOf(schedules, "gap_before")

web_solutions_are_similar(sol1, sol2) ==
    LET makespan1 == web_parse_time_to_minutes(sol1.summary.day_ends_at)
        makespan2 == web_parse_time_to_minutes(sol2.summary.day_ends_at)
        idle1 == web_calculate_total_idle_time(sol1.schedules)
        idle2 == web_calculate_total_idle_time(sol2.schedules)
    IN IF Abs(makespan1 - makespan2) > 30 THEN FALSE
       ELSE IF Abs(sol1.summary.order_breaks - sol2.summary.order_breaks) > 0 THEN FALSE
       ELSE IF Abs(idle1 - idle2) > 60 THEN FALSE
       ELSE TRUE

\* Mutant: the idle time is read from the key get_candidate_schedule writes.
api_calculate_total_idle_time_gap_before(schedules) == TotalOf(schedules, "gap_before")

api_calculate_total_idle_time(schedules) == TotalOf(schedules, "idle_time")

\* abs(idle1 - idle2) < tolerance, with tolerance = 0.1.
api_solutions_are_similar(sol1, sol2) ==
    LET idle1 == api_calculate_total_idle_time(sol1.schedules)
        idle2 == api_calculate_total_idle_time(sol2.schedules)
    IN Abs(idle1 - idle2) * 10 < 1

solutions_are_similar(op, sol1, sol2) ==
    IF op = "upload" THEN web_solutions_are_similar(sol1, sol2)
    ELSE api_solutions_are_similar(sol1, sol2)

\* Mutant: a solution is kept unless it is similar to every kept one.
is_different_from_some(op, solution, solutions) ==
    solutions = <<>> \/ \E i \in DOMAIN solutions : ~solutions_are_similar(op, solution, solutions[i])

is_different(op, solution, solutions) ==
    \A i \in DOMAIN solutions : ~solutions_are_similar(op, solution, solutions[i])

\* What one scheduler.solve() of the loop can come back with.
SolveOutcomes(a) ==
    IF ModelInvalid(a) THEN {[found |-> FALSE, status |-> "MODEL_INVALID", values |-> NoValues]}
    ELSE {[found |-> FALSE, status |-> "UNKNOWN", values |-> NoValues]}
         \cup (IF SolutionTable[a] = {}
               THEN {[found |-> FALSE, status |-> "INFEASIBLE", values |-> NoValues]}
               ELSE {[found |-> TRUE, status |-> "FEASIBLE", values |-> st] :
                        st \in SolutionTable[a]}
                    \cup {[found |-> TRUE, status |-> "OPTIMAL", values |-> st] :
                             st \in OptimalTable[a]})

SessionIds == {"s1", "s2"}

Stored(sessions, session_id, data) ==
    [s \in DOMAIN sessions \cup {session_id} |->
        IF s = session_id THEN data ELSE sessions[s]]

UploadProblems ==
    {ScenarioDHourly, IdleProblem, ScenarioE} \cup ShortDayProblems

\* The scheduler of the request exists: create_scheduler_from_config has returned.
InitUpload ==
    /\ config = NoConfig
    /\ args \in UploadProblems
    /\ phase = "ready"
    /\ error = ""
    /\ status = "NONE"
    /\ solution_found = FALSE
    /\ start_vars = NoValues
    /\ objective = NoValues
    /\ output = NoOutput
    /\ model = NoModel
    /\ request = NoRequest
    /\ temp_files = NoSessions
    /\ issued = {}
    /\ now = 0

\* The loop is entered: solutions = [].
UploadBegin ==
    /\ phase = "ready"
    /\ request = NoRequest
    /\ \/ request' = [op |-> "upload", max_solutions |-> WebMaxSolutions,
                      attempt |-> 0, solutions |-> <<>>]
       \/ \E m \in ApiMaxSolutions :
             request' = [op |-> "schedule_multiple", max_solutions |-> m,
                         attempt |-> 0, solutions |-> <<>>]
    /\ phase' = "looping"
    /\ UNCHANGED <<config, args, error, status, solution_found, start_vars, objective,
                   output, model, temp_files, issued, now>>

\* One turn of the loop: solve(), and the solution is kept if it is different.
UploadAttempt ==
    /\ phase = "looping"
    /\ request.attempt < max_attempts
    /\ Len(request.solutions) < request.max_solutions
    /\ \E o \in SolveOutcomes(args) :
          /\ status' = o.status
          /\ solution_found' = o.found
          /\ start_vars' = o.values
          /\ output' = [op |-> "solve", value |-> o.found]
          /\ request' =
                [request EXCEPT
                    !.attempt = @ + 1,
                    !.solutions =
                        IF o.found
                        THEN LET data == solution_data(args, o.status, o.values, request.attempt)
                             IN IF is_different(request.op, data, @) THEN Append(@, data) ELSE @
                        ELSE @]
    /\ model' = Encoded(CpModel(model))
    /\ UNCHANGED <<config, args, phase, error, objective, temp_files, issued, now>>

LoopOver ==
    /\ phase = "looping"
    /\ \/ request.attempt >= max_attempts
       \/ Len(request.solutions) >= request.max_solutions

\* No solution was kept: 400, nothing is stored.
UploadFail ==
    /\ LoopOver
    /\ request.solutions = <<>>
    /\ output' = [op |-> request.op, code |-> 400, error |-> NoFeasibleSolutions]
    /\ request' = NoRequest
    /\ phase' = "answered"
    /\ UNCHANGED <<config, args, error, status, solution_found, start_vars, objective,
                   model, temp_files, issued, now>>

\* The kept solutions are stored under a new session id and the request is answered.
UploadStore ==
    /\ LoopOver
    /\ request.solutions # <<>>
    /\ \E session_id \in SessionIds \ issued :
          /\ temp_files' = Stored(temp_files, session_id,
                                  [solutions |-> request.solutions, timestamp |-> now])
          /\ issued' = issued \cup {session_id}
          /\ output' = [op |-> request.op, code |-> 200, session_id |-> session_id,
                        num_solutions |-> Len(request.solutions)]
    /\ request' = NoRequest
    /\ phase' = "answered"
    /\ UNCHANGED <<config, args, error, status, solution_found, start_vars, objective,
                   model, now>>

NextUpload ==
    \/ UploadBegin
    \/ UploadAttempt
    \/ UploadFail
    \/ UploadStore

SpecUpload == InitUpload /\ [][NextUpload]_vars

(***************************************************************************)
(* The session store of an adapter process: temp_files, the sweep          *)
(* cleanup_old_sessions and the endpoints that look a session up.  The     *)
(* process is the web adapter (web/app.py) or the API (api/app.py); what   *)
(* a session holds is left as one opaque solution.                         *)
(***************************************************************************)
Adapters == {[kind |-> "adapter", name |-> "web"], [kind |-> "adapter", name |-> "api"]}

Times == {0, 1800, 3600, 3601, 5400, 7201}

SessionNotFound == "Session not found or expired"

OneSolution == <<"solution">>

Expired(sessions, session_id, current_time) ==
    current_time - sessions[session_id].timestamp > 3600

\* Mutant: a session is expired from the age of one hour on.
ExpiredAtOneHour(sessions, session_id, current_time) ==
    current_time - sessions[session_id].timestamp >= 3600

\* temp_files after cleanup_old_sessions() has run to its end.
cleanup_old_sessions(sessions, current_time) ==
    LET expired_sessions == {s \in DOMAIN sessions : Expired(sessions, s, current_time)}
    IN [s \in DOMAIN sessions \ expired_sessions |-> sessions[s]]

NotFound(op, session_id) ==
    [op |-> op, session_id |-> session_id, code |-> 404, error |-> SessionNotFound]

Answer(op, session_id, code) ==
    [op |-> op, session_id |-> session_id, code |-> code, error |-> ""]

InitSessions ==
    /\ config \in Adapters
    /\ args = NoConfig
    /\ phase = "serving"
    /\ error = ""
    /\ status = "NONE"
    /\ solution_found = FALSE
    /\ start_vars = NoValues
    /\ objective = NoValues
    /\ output = NoOutput
    /\ model = NoModel
    /\ request = NoRequest
    /\ temp_files = NoSessions
    /\ issued = {}
    /\ now = 0

\* Frame of the requests of this process.
SchedulerUnchanged ==
    UNCHANGED <<config, args, phase, error, status, solution_found, start_vars, objective,
                model, request>>

\* time.time() moves on.
Tick ==
    /\ phase = "serving"
    /\ \E t \in Times : t > now /\ now' = t
    /\ UNCHANGED <<output, temp_files, issued>>
    /\ SchedulerUnchanged

\* The end of upload_file, schedule and schedule_multiple with solutions to keep.
StoreSession ==
    /\ phase = "serving"
    /\ \E session_id \in SessionIds \ issued :
          /\ temp_files' = Stored(temp_files, session_id,
                                  [solutions |-> OneSolution, timestamp |-> now])
          /\ issued' = issued \cup {session_id}
          /\ output' = Answer("store", session_id, 200)
    /\ UNCHANGED now
    /\ SchedulerUnchanged

\* web: GET / and GET /health sweep and answer.
WebIndex ==
    /\ phase = "serving"
    /\ config.name = "web"
    /\ temp_files' = cleanup_old_sessions(temp_files, now)
    /\ output' = Answer("index", "", 200)
    /\ UNCHANGED <<issued, now>>
    /\ SchedulerUnchanged

\* web: GET /solutions/<session_id> and GET /download/<session_id>.
WebGetSolutions ==
    /\ phase = "serving"
    /\ config.name = "web"
    /\ \E op \in {"get_solutions", "download"}, session_id \in SessionIds :
          LET swept == cleanup_old_sessions(temp_files, now) IN
          /\ temp_files' = swept
          /\ output' = IF session_id \notin DOMAIN swept THEN NotFound(op, session_id)
                        ELSE Answer(op, session_id, 200)
    /\ UNCHANGED <<issued, now>>
    /\ SchedulerUnchanged

\* web: GET /download_csv/<session_id>/<solution_index>.  Once the session and
\* the index are found, the solution is solved for again, up to 20 times, and
\* the request fails with 500 if it does not come back.
WebDownloadCsv ==
    /\ phase = "serving"
    /\ config.name = "web"
    /\ \E session_id \in SessionIds, solution_index \in {0, 1} :
          LET swept == cleanup_old_sessions(temp_files, now) IN
          /\ temp_files' = swept
          /\ IF session_id \notin DOMAIN swept
             THEN output' = NotFound("download_csv", session_id)
             ELSE IF ~(0 <= solution_index /\ solution_index < Len(swept[session_id].solutions))
             THEN output' = Answer("download_csv", session_id, 400)
             ELSE \E code \in {200, 500} : output' = Answer("download_csv", session_id, code)
    /\ UNCHANGED <<issued, now>>
    /\ SchedulerUnchanged

\* api: GET /api/solutions/<session_id> looks the session up without a sweep.
ApiGetSolutions ==
    /\ phase = "serving"
    /\ config.name = "api"
    /\ \E session_id \in SessionIds :
          output' = IF session_id \notin DOMAIN temp_files
                    THEN NotFound("get_solutions", session_id)
                    ELSE Answer("get_solutions", session_id, 200)
    /\ UNCHANGED <<temp_files, issued, now>>
    /\ SchedulerUnchanged

\* api: GET /api/download_csv/...: api/app.py defines no cleanup_old_sessions,
\* the call raises NameError and Flask answers 500.
ApiDownloadCsv ==
    /\ phase = "serving"
    /\ config.name = "api"
    /\ \E session_id \in SessionIds :
          output' = [op |-> "download_csv", session_id |-> session_id, code |-> 500,
                     error |-> "NameError"]
    /\ UNCHANGED <<temp_files, issued, now>>
    /\ SchedulerUnchanged

NextSessions ==
    \/ Tick
    \/ StoreSession
    \/ WebIndex
    \/ WebGetSolutions
    \/ WebDownloadCsv
    \/ ApiGetSolutions
    \/ ApiDownloadCsv

SpecSessions == InitSessions /\ [][NextSessions]_vars

(***************************************************************************)
(* cleanup_old_sessions step by step in one thread of the web adapter,     *)
(* while another thread stores a session.  The first loop walks            *)
(* temp_files.items(): the dictionary's iterator raises RuntimeError when  *)
(* the dictionary has changed size since the loop began.  The second loop  *)
(* deletes the expired sessions one by one.                                *)
(***************************************************************************)
DictChangedSize == "RuntimeError: dictionary changed size during iteration"

InitSweep ==
    /\ config = [kind |-> "adapter", name |-> "web"]
    /\ args = NoConfig
    /\ phase = "serving"
    /\ error = ""
    /\ status = "NONE"
    /\ solution_found = FALSE
    /\ start_vars = NoValues
    /\ objective = NoValues
    /\ output = NoOutput
    /\ model = NoModel
    /\ request = NoRequest
    /\ temp_files = NoSessions
    /\ issued = {}
    /\ now = 0

SweepFrame ==
    UNCHANGED <<config, args, phase, error, status, solution_found, start_vars, objective,
                model, issued, now>>

\* current_time = time.time(); expired_sessions = []; the loop takes the iterator.
SweepBegin ==
    /\ phase = "serving"
    /\ request = NoRequest
    /\ request' = [op |-> "cleanup", pc |-> "iterate", current_time |-> now,
                   size |-> Cardinality(DOMAIN temp_files), visited |-> {},
                   expired_sessions |-> <<>>]
    /\ UNCHANGED <<output, temp_files>>
    /\ SweepFrame

\* The iterator is asked for the next item.
SweepNext ==
    /\ request.op = "cleanup"
    /\ request.pc = "iterate"
    /\ IF Cardinality(DOMAIN temp_files) # request.size
       THEN /\ request' = NoRequest
            /\ output' = [op |-> "cleanup", session_id |-> "", code |-> 500,
                          error |-> DictChangedSize]
       ELSE IF DOMAIN temp_files \ request.visited = {}
       THEN /\ request' = [request EXCEPT !.pc = "delete"]
            /\ UNCHANGED output
       ELSE /\ \E session_id \in DOMAIN temp_files \ request.visited :
                  request' = [request EXCEPT
                                 !.visited = @ \cup {session_id},
                                 !.expired_sessions =
                                     IF Expired(temp_files, session_id, request.current_time)
                                     THEN Append(@, session_id) ELSE @]
            /\ UNCHANGED output
    /\ UNCHANGED temp_files
    /\ SweepFrame

\* del temp_files[session_id] for the next expired session, or the end of the sweep.
SweepDelete ==
    /\ request.op = "cleanup"
    /\ request.pc = "delete"
    /\ IF request.expired_sessions = <<>>
       THEN /\ request' = NoRequest
            /\ output' = Answer("cleanup", "", 200)
            /\ UNCHANGED temp_files
       ELSE /\ temp_files' = [s \in DOMAIN temp_files \ {Head(request.expired_sessions)} |->
                                 temp_files[s]]
            /\ request' = [request EXCEPT !.expired_sessions = Tail(@)]
            /\ UNCHANGED output
    /\ SweepFrame

\* The other thread: time passes, or its request stores a session.
OtherTick ==
    /\ \E t \in Times : t > now /\ now' = t
    /\ UNCHANGED <<config, args, phase, error, status, solution_found, start_vars, objective,
                   output, model, request, temp_files, issued>>

OtherStore ==
    /\ \E session_id \in SessionIds \ issued :
          /\ temp_files' = Stored(temp_files, session_id,
                                  [solutions |-> OneSolution, timestamp |-> now])
          /\ issued' = issued \cup {session_id}
    /\ UNCHANGED <<config, args, phase, error, status, solution_found, start_vars, objective,
                   output, model, request, now>>

NextSweep ==
    \/ SweepBegin
    \/ SweepNext
    \/ SweepDelete
    \/ OtherTick
    \/ OtherStore

SpecSweep == InitSweep /\ [][NextSweep]_vars

(***************************************************************************)
(* parse_duration alone, on texts put together from a number, a unit, a    *)
(* number and a unit, each of which may be missing, after an optional      *)
(* blank.                                                                  *)
(***************************************************************************)
NumberTexts == {<<>>, <<"1">>, <<"2">>, <<"3", "0">>, <<"4", "5">>}

UnitTexts == {<<>>, <<"h">>, <<"H">>, <<"m", "i", "n">>, <<"M", "i", "n">>, <<"m">>}

DurationTexts ==
    {pad \o n1 \o u1 \o n2 \o u2 :
        pad \in {<<>>, <<" ">>}, n1 \in NumberTexts, u1 \in UnitTexts,
        n2 \in NumberTexts, u2 \in UnitTexts}

InitDuration ==
    /\ \E t \in DurationTexts : config = [kind |-> "duration", text |-> t]
    /\ args = NoConfig
    /\ phase = "duration"
    /\ error = ""
    /\ status = "NONE"
    /\ solution_found = FALSE
    /\ start_vars = NoValues
    /\ objective = NoValues
    /\ output = NoOutput
    /\ model = NoModel
    /\ request = NoRequest
    /\ temp_files = NoSessions
    /\ issued = {}
    /\ now = 0

ParseDuration ==
    /\ phase = "duration"
    /\ output = NoOutput
    /\ output' = [op |-> "parse_duration", value |-> parse_duration(config.text)]
    /\ UNCHANGED <<config, args, phase, error, status, solution_found, start_vars, objective, model, web>>

NextDuration == ParseDuration

SpecDuration == InitDuration /\ [][NextDuration]_vars


(***************************************************************************)
(* What the specification says of a schedule (section 3), stated on the    *)
(* start slots alone.                                                      *)
(***************************************************************************)
Solved == phase = "solved" /\ solution_found

Orderings(S) ==
    {seq \in [1 .. Cardinality(S) -> S] : \A i, j \in DOMAIN seq : i # j => seq[i] # seq[j]}

\* The orders in which a candidate's sessions are sorted by start slot.
SortedOrders(a, r) ==
    {seq \in Orderings(PanelSet(a)) :
        \A i \in 1 .. (Len(seq) - 1) : r[seq[i]] <= r[seq[i + 1]]}

GapsWithin(a, r, seq) ==
    \A i \in 1 .. (Len(seq) - 1) :
        LET gap == r[seq[i + 1]] - End(a, r, seq[i])
        IN 0 <= gap /\ gap <= max_gap_slots(a)

GapBound(a, r) == \E seq \in SortedOrders(a, r) : GapsWithin(a, r, seq)

AllDurationsPositive(a) == \A p \in PanelSet(a) : a.panels[p] >= 1

\* C1: in every assignment the solver can return, each candidate's sessions,
\* sorted by start slot, have every consecutive gap in 0 .. G.
C1_GapBound == Solved => \A c \in Candidates(args) : GapBound(args, start_vars[c])

\* The same when every panel lasts at least one slot.
GapBoundPositiveDurations ==
    (Solved /\ AllDurationsPositive(args)) =>
        \A c \in Candidates(args) : GapBound(args, start_vars[c])

Contained(a, r, p) ==
    \E i \in DOMAIN a.availabilities[p] :
        a.availabilities[p][i][1] <= r[p] /\ End(a, r, p) <= a.availabilities[p][i][2]

CompletedBefore(a, r, panel) == {other \in PanelSet(a) \ {panel} : End(a, r, other) <= r[panel]}

PinHolds(a, r, pin) ==
    CASE pin.position.type = "str" /\ pin.position.str = "first" ->
            \A other \in PanelSet(a) \ {pin.panel} : r[pin.panel] <= r[other]
      [] pin.position.type = "str" /\ pin.position.str = "last" ->
            \A other \in PanelSet(a) \ {pin.panel} : r[pin.panel] >= End(a, r, other)
      [] pin.position.type = "int" ->
            Cardinality(CompletedBefore(a, r, pin.panel)) = pin.position.int
      [] OTHER -> FALSE

PinsHold(a, r) ==
    \A i \in DOMAIN a.position_constraints : PinHolds(a, r, a.position_constraints[i])

\* The invariants of section 3 on one candidate's sessions; the gap bound is asked
\* of every order the sessions can be sorted in.
ValidRow(a, r) ==
    /\ CandidateNoOverlap(a, r)
    /\ \A p \in PanelSet(a) : Contained(a, r, p)
    /\ \A seq \in SortedOrders(a, r) : GapsWithin(a, r, seq)
    /\ PinsHold(a, r)

ValidSchedules(a) ==
    LET rows == {r \in [PanelSet(a) -> 0 .. a.slots_per_day] : ValidRow(a, r)}
    IN {st \in [Candidates(a) -> rows] :
            PanelNoOverlap(a, st) /\ PanelConflictConstraints(a, st)}

\* C2: every schedule that meets the invariants of section 3 is an assignment of
\* the model (values exist for all its Booleans).
C2_NoValidScheduleExcluded ==
    phase = "solving" => \A st \in ValidSchedules(args) : st \in SolutionTable[args]

\* The same for problems whose preferred order names no panel twice.
OrderDistinct(a) == Cardinality(Range(a.order)) = Len(a.order)

NoValidScheduleExcludedDistinctOrder ==
    (phase = "solving" /\ OrderDistinct(args)) =>
        \A st \in ValidSchedules(args) : st \in SolutionTable[args]

\* Two sessions overlap when each starts before the other ends.
Overlap(s1, d1, s2, d2) == s1 < s2 + d2 /\ s2 < s1 + d1

SessionsOverlap(a, st, c1, p1, c2, p2) ==
    Overlap(st[c1][p1], a.panels[p1], st[c2][p2], a.panels[p2])

\* C3: in every solution the sessions of a panel other than the shared panel
\* Lunch do not overlap across candidates.
C3_PanelNoOverlap ==
    Solved =>
        \A p \in PanelSet(args) \ {"Lunch"} : \A c1, c2 \in Candidates(args) :
            c1 # c2 => ~SessionsOverlap(args, start_vars, c1, p, c2, p)

\* C3, the exemption: a solution in which two candidates have Lunch at the same time.
C3_LunchOverlaps ==
    /\ Solved
    /\ AllDurationsPositive(args)
    /\ \E c1, c2 \in Candidates(args) :
          c1 # c2 /\ SessionsOverlap(args, start_vars, c1, "Lunch", c2, "Lunch")

\* C4: in every solution no two sessions of the panels of a conflict group
\* overlap, whatever their candidates and panels.
C4_ConflictGroups ==
    Solved =>
        \A g \in DOMAIN args.panel_conflicts :
            LET group == Range(args.panel_conflicts[g]) IN
            \A p1, p2 \in group : \A c1, c2 \in Candidates(args) :
                (p1 # p2 \/ c1 # c2) => ~SessionsOverlap(args, start_vars, c1, p1, c2, p2)

\* A solution for two candidates of a problem with a conflict group, where one
\* candidate's session of a group panel is next to the other's of another panel.
C4_Witness ==
    /\ Solved
    /\ args.num_candidates >= 2
    /\ AllDurationsPositive(args)
    /\ \E g \in DOMAIN args.panel_conflicts :
          \E p1, p2 \in Range(args.panel_conflicts[g]) :
              p1 # p2 /\ End(args, start_vars[0], p1) = start_vars[1][p2]

WindowsContaining(a, r, p) ==
    {i \in DOMAIN a.availabilities[p] :
        a.availabilities[p][i][1] <= r[p] /\ End(a, r, p) <= a.availabilities[p][i][2]}

C6_PositionPins ==
    Solved => \A c \in Candidates(args) : PinsHold(args, start_vars[c])

\* Scenario F solved: exactly two other panels are over when X starts.
C6_Witness ==
    /\ Solved
    /\ args = ScenarioF
    /\ Cardinality(CompletedBefore(args, start_vars[0], "X")) = 2

\* C7: of two assignments the one with fewer order breaks has the smaller
\* objective whatever the makespans, and with equal breaks the objective orders
\* them by makespan.
C7_Lexicographic ==
    objective # NoValues =>
        LET x == objective[1]
            y == objective[2]
        IN /\ x.num_breaks < y.num_breaks => x.value < y.value
           /\ x.num_breaks = y.num_breaks => (x.value < y.value <=> x.makespan < y.makespan)

\* Fewer breaks with the longest day against more breaks with the shortest, 34 slots.
C7_Witness ==
    /\ objective # NoValues
    /\ args.slots_per_day = 34
    /\ objective[1].num_breaks + 1 = objective[2].num_breaks
    /\ objective[1].makespan = 34
    /\ objective[2].makespan = 0

(***************************************************************************)
(* What the specification says of the validator (section 4.2), stated on   *)
(* the arguments the scheduler is created from.                            *)
(***************************************************************************)
Created == phase \notin {"args", "config", "objective"}

\* The constructor's arguments: those given, or those made from the configuration.
GivenArgs == IF config = NoConfig THEN args ELSE ConfigArgs(config)

UnknownPanelInOrder(a) == \E i \in DOMAIN a.order : a.order[i] \notin DOMAIN a.panels

NoAvailabilityEntry(a) == \E p \in DOMAIN a.panels : p \notin DOMAIN a.availabilities

BadWindow(a) ==
    \E p \in DOMAIN a.availabilities : \E i \in DOMAIN a.availabilities[p] :
        LET lo == a.availabilities[p][i][1]
            hi == a.availabilities[p][i][2]
        IN ~(0 <= lo /\ lo < hi /\ hi <= a.slots_per_day)

UnknownPinnedPanel(a) ==
    \E i \in DOMAIN a.position_constraints :
        a.position_constraints[i].panel \notin DOMAIN a.panels

BadPosition(a) ==
    \E i \in DOMAIN a.position_constraints :
        LET pos == a.position_constraints[i].position
        IN ~ \/ pos.type = "str" /\ pos.str \in {"first", "last"}
             \/ pos.type = "int" /\ pos.int \in 0 .. (Cardinality(DOMAIN a.panels) - 1)

BadConflictGroup(a) ==
    \E g \in DOMAIN a.panel_conflicts :
        LET group == a.panel_conflicts[g]
        IN \/ Len(group) < 2
           \/ \E i \in DOMAIN group : group[i] \notin DOMAIN a.panels
           \/ \E i, j \in DOMAIN group : i # j /\ group[i] = group[j]

ConfigurationError(a) ==
    \/ UnknownPanelInOrder(a)
    \/ NoAvailabilityEntry(a)
    \/ BadWindow(a)
    \/ UnknownPinnedPanel(a)
    \/ BadPosition(a)
    \/ BadConflictGroup(a)

\* C8: creating a scheduler from arguments with a configuration error raises, and
\* nothing is solved on it.
C8_ConfigurationErrorsRejected ==
    (Created /\ ConfigurationError(GivenArgs)) =>
        /\ phase = "rejected"
        /\ error # ""
        /\ status = "NONE"
        /\ ~solution_found
        /\ start_vars = NoValues

\* A scheduler rejected for a conflict group that names a panel twice, all else well-formed.
C8_Witness ==
    /\ phase = "rejected"
    /\ error = "BadConflictGroup"
    /\ \A g \in DOMAIN args.panel_conflicts :
          /\ Len(args.panel_conflicts[g]) >= 2
          /\ Range(args.panel_conflicts[g]) \subseteq DOMAIN args.panels

\* C9: a problem with a panel that has no availability window, its list of
\* windows missing or empty, is rejected.
C9_NoWindowRejected ==
    (Created /\ \E p \in DOMAIN GivenArgs.panels :
                    \/ p \notin DOMAIN GivenArgs.availabilities
                    \/ GivenArgs.availabilities[p] = <<>>)
        => phase = "rejected"

\* C10: a problem with a panel whose duration is not a positive whole number of
\* slots is rejected.
BadDuration ==
    IF config = NoConfig
    THEN \E p \in DOMAIN args.panels : args.panels[p] < 1
    ELSE \E p \in DOMAIN config.panels :
            \/ config.panels[p] % config.slot_duration_minutes # 0
            \/ config.panels[p] \div config.slot_duration_minutes < 1

C10_BadDurationRejected == (Created /\ BadDuration) => phase = "rejected"

\* The part of C10 that the code has: a duration that is no whole number of slots is rejected.
IndivisibleDurationRejected ==
    (Created /\ config # NoConfig
        /\ \E p \in DOMAIN config.panels : config.panels[p] % config.slot_duration_minutes # 0)
        => phase = "rejected" /\ error = "BadDuration"

(***************************************************************************)
(* Section 7 of the specification: how solve outcomes reach the caller.    *)
(***************************************************************************)
SolveStatuses == {"OPTIMAL", "FEASIBLE", "INFEASIBLE", "UNKNOWN"}

ApiAnswered == output.op = "schedule" /\ phase = "solved"

\* C11: a solver status other than Optimal, Feasible, Infeasible and Unknown reaches
\* the caller of the API as an error of its own that names the status; it is never
\* answered with the message of a problem that has no feasible solution.
C11_SolverErrorDistinct ==
    (ApiAnswered /\ status \notin SolveStatuses) =>
        /\ output.value.error # NoFeasibleSolutions
        /\ output.value.error = status

(***************************************************************************)
(* Position against order.                                                 *)
(***************************************************************************)
PairKept(a, r, i) == End(a, r, a.order[i]) <= r[a.order[i + 1]]

\* The pins contradict the i-th pair of the preferred order: rows that obey the
\* pins exist, and none of them has the first panel of the pair over before the
\* second starts.
PinContradictsPair(a, i) ==
    LET pinned == {r \in RowDomain(a) : CandidateNoOverlap(a, r) /\ PinsHold(a, r)}
    IN /\ a.position_constraints # <<>>
       /\ pinned # {}
       /\ \A r \in pinned : ~PairKept(a, r, i)

ContradictedPairs(a) == {i \in OrderPairs(a) : PinContradictsPair(a, i)}

\* C12: when a pin contradicts a consecutive pair of the preferred order, the
\* model has the assignments it has with no preferred order at all, every
\* solution obeys the pins, and the break indicator of that pair is true for
\* every candidate.
C12_PinWinsOverOrder ==
    /\ (phase = "solving" /\ ContradictedPairs(args) # {}) =>
            SolutionTable[args] = Solutions([args EXCEPT !.order = <<>>])
    /\ Solved =>
            \A i \in ContradictedPairs(args) : \A c \in Candidates(args) :
                /\ PinsHold(args, start_vars[c])
                /\ \A b \in BreakChoices(args, start_vars[c]) : b[i]

\* A solution of a problem whose panels all take time, with A pinned first and
\* the preferred order B, A: A starts first and the pair is broken.
C12_Witness ==
    /\ Solved
    /\ AllDurationsPositive(args)
    /\ ContradictedPairs(args) # {}
    /\ \A i \in ContradictedPairs(args) : ~PairKept(args, start_vars[0], i)

\* C13: a problem the validator accepts has the same feasible assignments whatever
\* its preferred order is: those it has with the empty order.
C13_OrderOnlyCost ==
    phase = "solving" => SolutionTable[args] = Solutions([args EXCEPT !.order = <<>>])

\* The same for a preferred order that never names one panel twice in a row.
NoImmediateRepeat(a) == \A i \in OrderPairs(a) : a.order[i] # a.order[i + 1]

OrderOnlyCostNoRepeat ==
    (phase = "solving" /\ NoImmediateRepeat(args)) =>
        SolutionTable[args] = Solutions([args EXCEPT !.order = <<>>])

(***************************************************************************)
(* Section 4.1 of the specification: the timeline.                         *)
(***************************************************************************)
\* C14: time_to_slot never returns a slot index outside 0 .. S-1 (it has no way to
\* fail, so every value it returns has to be in range).
C14_ToSlotInRange ==
    output.op = "time_to_slot" => output.value \in 0 .. (args.slots_per_day - 1)

ColonAt(text) == CHOOSE i \in DOMAIN text : text[i] = ":"

PrintedHour(text) == IntValue(SubSeq(text, 1, ColonAt(text) - 1))

PrintedMinute(text) == IntValue(SubSeq(text, ColonAt(text) + 1, Len(text)))

\* A clock time on a slot boundary of the day, the end of the day included.
SlotAligned(a, h, m) ==
    LET since == (h - a.start_time_hour) * 60 + (m - a.start_time_minute)
    IN since >= 0 /\ since % a.slot_duration_minutes = 0
       /\ since <= a.slots_per_day * a.slot_duration_minutes

TwoDigits(n) == <<DigitChars[(n \div 10) + 1], DigitChars[(n % 10) + 1]>>

\* C15: time_to_slot of the hour and minute that slot_to_time(k) prints is k, for
\* k in 0 .. S; and slot_to_time of the slot of a slot-aligned time h:m prints hh:mm.
C15_RoundTrip ==
    /\ output.op = "slot_to_time" =>
            scheduler_time_to_slot(args, PrintedHour(output.value),
                                   PrintedMinute(output.value)) = output.slot
    /\ (output.op = "time_to_slot" /\ SlotAligned(args, output.hour, output.minute)) =>
            slot_to_time(args, output.value)
                = TwoDigits(output.hour) \o <<":">> \o TwoDigits(output.minute)

\* A slot-aligned time past the first hour of a day that starts off the hour.
C15_Witness ==
    /\ output.op = "time_to_slot"
    /\ SlotAligned(args, output.hour, output.minute)
    /\ args.start_time_minute # 0
    /\ output.hour > args.start_time_hour
    /\ output.value >= 2

\* The four forms of a duration, read off the text with its case folded and the
\* blanks around it dropped: N, Nmin, Nh, NhMmin.
DigitsAhead(t) ==
    CHOOSE n \in 0 .. Len(t) :
        /\ \A i \in 1 .. n : t[i] \in Range(DigitChars)
        /\ (n < Len(t) => t[n + 1] \notin Range(DigitChars))

ExpectedDuration(text) ==
    LET t == Strip(Lower(text))
        n == DigitsAhead(t)
        number == IntValue(SubSeq(t, 1, n))
        unit == SubSeq(t, n + 1, Len(t))
        after == IF unit = <<>> THEN <<>> ELSE Tail(unit)
        m == DigitsAhead(after)
    IN IF n = 0 THEN ValueError
       ELSE IF unit = <<>> \/ unit = <<"m", "i", "n">> THEN Minutes(number)
       ELSE IF unit = <<"h">> THEN Minutes(60 * number)
       ELSE IF unit[1] = "h" /\ m > 0 /\ SubSeq(after, m + 1, Len(after)) = <<"m", "i", "n">>
            THEN Minutes(60 * number + IntValue(SubSeq(after, 1, m)))
       ELSE ValueError

\* C16: parse_duration returns the minutes of a text of one of the four forms and
\* fails on every other text.
C16_ParseDuration ==
    output.op = "parse_duration" => output.value = ExpectedDuration(config.text)

\* The first half alone: a text of one of the four forms is parsed to its minutes.
DurationFormsParsed ==
    (output.op = "parse_duration" /\ ExpectedDuration(config.text).ok) =>
        output.value = ExpectedDuration(config.text)

(***************************************************************************)
(* Section 4.5 of the specification: what is reported of a solution.       *)
(***************************************************************************)
Returned(op) == Solved /\ output.op = op

\* The sessions get_candidate_schedule returned are one per panel, at the solver's
\* start slots, sorted by start slot; the first has no gap field and each later one
\* has the gap to the session before it, in minutes, within 0 .. G * W.
ScheduleAsSpecified(a, st, c, sessions) ==
    /\ Len(sessions) = Cardinality(PanelSet(a))
    /\ \A p \in PanelSet(a) :
          \E i \in DOMAIN sessions :
              sessions[i].panel = p /\ sessions[i].start_slot = st[c][p]
    /\ \A i \in 1 .. (Len(sessions) - 1) :
          sessions[i].start_slot <= sessions[i + 1].start_slot
    /\ "gap_before" \notin DOMAIN sessions[1]
    /\ \A i \in 2 .. Len(sessions) :
          /\ "gap_before" \in DOMAIN sessions[i]
          /\ sessions[i].gap_before
                = (sessions[i].start_slot - sessions[i - 1].end_slot) * a.slot_duration_minutes
          /\ 0 <= sessions[i].gap_before
          /\ sessions[i].gap_before <= max_gap_slots(a) * a.slot_duration_minutes

\* C17: for every candidate of a found solution, get_candidate_schedule returns
\* the sessions as specified.
C17_CandidateSchedule ==
    Returned("get_candidate_schedule") =>
        ScheduleAsSpecified(args, start_vars, output.candidate_id, output.value)

\* The same when every panel lasts at least one slot.
CandidateSchedulePositiveDurations ==
    (Returned("get_candidate_schedule") /\ AllDurationsPositive(args)) =>
        ScheduleAsSpecified(args, start_vars, output.candidate_id, output.value)

\* The values num_breaks can have in the solver's answer: with status OPTIMAL the
\* least the assignment allows, with FEASIBLE any it allows.
SolverNumBreaks ==
    IF status = "OPTIMAL" THEN {MinOf(NumBreaksChoices(args, start_vars))}
    ELSE NumBreaksChoices(args, start_vars)

LargestEnd(a, st) ==
    CHOOSE e \in {End(a, st[c], p) : c \in Candidates(a), p \in PanelSet(a)} :
        \A c \in Candidates(a), p \in PanelSet(a) : e >= End(a, st[c], p)

MinutesOfDay(text) == PrintedHour(text) * 60 + PrintedMinute(text)

SummaryAsSpecified(summary) ==
    /\ \A nb \in SolverNumBreaks : summary.order_breaks = nb
    /\ MinutesOfDay(summary.day_ends_at)
          = args.start_time_hour * 60 + args.start_time_minute
            + LargestEnd(args, start_vars) * args.slot_duration_minutes

\* C18: the order_breaks of the summary of a found solution is the model's
\* num_breaks, and day_ends_at is the clock time of the largest session end.
C18_SummaryConsistent ==
    Returned("get_solution_summary") => SummaryAsSpecified(output.value)

\* The same when every panel lasts at least one slot.
SummaryConsistentPositiveDurations ==
    (Returned("get_solution_summary") /\ AllDurationsPositive(args)) =>
        SummaryAsSpecified(output.value)

\* hh:mm of the start of slot k.
ClockText(a, k) ==
    LET since_midnight == a.start_time_hour * 60 + a.start_time_minute
                          + k * a.slot_duration_minutes
    IN TwoDigits(since_midnight \div 60) \o <<":">> \o TwoDigits(since_midnight % 60)

Covering(a, r, k) == {p \in PanelSet(a) : r[p] <= k /\ k < End(a, r, p)}

CsvAsSpecified(a, st, date, rows) ==
    /\ Len(rows) = a.slots_per_day + 1
    /\ rows[1] = <<date>> \o [c \in 1 .. a.num_candidates |->
                                 <<"CANDIDATE ", DigitChars[c + 1]>>]
    /\ \A k \in 0 .. (a.slots_per_day - 1) :
          LET row == rows[k + 2] IN
          /\ Len(row) = a.num_candidates + 1
          /\ row[1] = ClockText(a, k) \o <<"-">> \o ClockText(a, k + 1)
          /\ \A c \in Candidates(a) :
                IF Covering(a, st[c], k) = {} THEN row[c + 2] = ""
                ELSE Covering(a, st[c], k) = {row[c + 2]}

\* C19: export_to_csv of a found solution is the header row and one row per slot
\* of the day, in order, each with the slot's time range and, for every candidate,
\* the panel in session during the slot or the empty string.
C19_CsvRender ==
    Returned("export_to_csv") =>
        /\ output.value.ok
        /\ CsvAsSpecified(args, start_vars, output.date, output.value.csv_data)

\* The export of a solution for two candidates, one of them idle in the first
\* slot of the day while the other is in a session.
C19_Witness ==
    /\ Returned("export_to_csv")
    /\ args.num_candidates >= 2
    /\ AllDurationsPositive(args)
    /\ Covering(args, start_vars[0], 0) = {}
    /\ Covering(args, start_vars[1], 0) # {}

(***************************************************************************)
(* Section 8 of the specification: scenario C.                             *)
(***************************************************************************)
\* C20 as stated: scenario C has no feasible schedule, solve() finds none.
C20_ScenarioCInfeasible ==
    (args = ScenarioC /\ phase = "solved") => ~solution_found

\* Every session of the row but the earliest starts as another one ends, and no
\* two sessions of the row share a slot.
BackToBack(a, r) ==
    /\ \A p \in PanelSet(a) :
          \/ \A q \in PanelSet(a) : r[p] <= r[q]
          \/ \E q \in PanelSet(a) \ {p} : End(a, r, q) = r[p]
    /\ \A p, q \in PanelSet(a) :
          p # q => (End(a, r, p) <= r[q] \/ End(a, r, q) <= r[p])

\* C20 as amended: scenario C has feasible schedules.  The model of solve() has
\* assignments for it, and every one returned has each candidate's seven
\* sessions back to back and inside their windows, and no panel but Lunch with
\* two candidates at a time.
C20_ScenarioCFeasible ==
    /\ (args = ScenarioC /\ phase = "solving") => ChainSolutions(args) # {}
    /\ (args = ScenarioC /\ Solved) =>
            /\ ModelConstraints(args, start_vars)
            /\ \A c \in Candidates(args) :
                  /\ BackToBack(args, start_vars[c])
                  /\ \A p \in PanelSet(args) : Contained(args, start_vars[c], p)
            /\ \A p \in PanelSet(args) \ {"Lunch"} : \A c1, c2 \in Candidates(args) :
                  c1 # c2 => ~SessionsOverlap(args, start_vars, c1, p, c2, p)

\* Scenario C solved, three candidates, with a schedule.
C20_Witness ==
    /\ args = ScenarioC
    /\ Solved
    /\ args.num_candidates = 3
    /\ max_gap_slots(args) = 0

(***************************************************************************)
(* Section 8 of the specification: scenario A.                             *)
(***************************************************************************)
GapsBefore(sessions) ==
    {sessions[i].gap_before : i \in 2 .. Len(sessions)}

\* C21: scenario A has feasible schedules.  The model of solve() has
\* assignments for it; solve() then reports OPTIMAL or FEASIBLE, and in the
\* solution each candidate's schedule has one session for each of the seven
\* panels, no gap before a session is longer than one slot, and no panel but
\* Lunch has two candidates at a time.
C21_ScenarioAFeasible ==
    /\ (args = ScenarioA /\ phase = "solving") => ChainSolutions(args) # {}
    /\ (args = ScenarioA /\ Solved) =>
            /\ status \in {"OPTIMAL", "FEASIBLE"}
            /\ ModelConstraints(args, start_vars)
            /\ \A c \in Candidates(args) :
                  LET sessions == get_candidate_schedule(args, solution_found, start_vars, c) IN
                  /\ Len(sessions) = 7
                  /\ {sessions[i].panel : i \in DOMAIN sessions} = Range(ScenarioKeys)
                  /\ \A g \in GapsBefore(sessions) :
                        g >= 0 /\ g <= 1 * args.slot_duration_minutes
            /\ \A p \in PanelSet(args) \ {"Lunch"} : \A c1, c2 \in Candidates(args) :
                  c1 # c2 => ~SessionsOverlap(args, start_vars, c1, p, c2, p)

\* Scenario A solved for its three candidates, one of them waiting a slot
\* between two sessions and two of them at Lunch together.
C21_Witness ==
    /\ args = ScenarioA
    /\ Solved
    /\ \E c \in Candidates(args) :
          15 \in GapsBefore(get_candidate_schedule(args, solution_found, start_vars, c))
    /\ \E c1, c2 \in Candidates(args) :
          c1 # c2 /\ SessionsOverlap(args, start_vars, c1, "Lunch", c2, "Lunch")

(***************************************************************************)
(* Section 8 of the specification: scenario E.                             *)
(***************************************************************************)
\* C22: in scenario E the optimal schedule is unique.  Whenever solve() reports
\* OPTIMAL, A starts at slot 0 and B at slot 2, the summary counts no order
\* break, and A is not inside its window (10, 12).
C22_WindowSelection ==
    (args = ScenarioE /\ Solved /\ status = "OPTIMAL") =>
        /\ start_vars = [c \in {0} |-> [A |-> 0, B |-> 2]]
        /\ OptimalTable[args] = {[c \in {0} |-> [A |-> 0, B |-> 2]]}
        /\ get_solution_summary(args, solution_found, status, start_vars).order_breaks = 0
        /\ ~(start_vars[0]["A"] >= 10 /\ End(args, start_vars[0], "A") <= 12)

\* Scenario E solved to optimality, while the model also has an assignment that
\* uses the window (10, 12).
C22_Witness ==
    /\ args = ScenarioE
    /\ Solved
    /\ status = "OPTIMAL"
    /\ \E st \in SolutionTable[args] : st[0]["A"] = 10

(***************************************************************************)
(* Section 7 of the specification: empty preferred order, single panel.    *)
(***************************************************************************)
\* The smallest makespan among the model's assignments, computed once per problem.
SmallestMakespan ==
    [a \in AcceptedArgs |->
        IF SolutionTable[a] = {} THEN 0
        ELSE MinOf({LargestEnd(a, st) : st \in SolutionTable[a]})]

\* C23: when the preferred order is empty or has one entry there is no break
\* variable, num_breaks is 0 in every solution and reported as 0, and the
\* objective is the makespan: OPTIMAL goes with the smallest makespan of the
\* model's assignments.  Scenario D has assignments although its one panel
\* needs no follows edge, and its optimum has the session at slot 0 with
\* order_breaks = 0.
C23_EmptyOrder ==
    /\ (Solved /\ Len(args.order) <= 1) =>
            /\ OrderPairs(args) = {}
            /\ NumBreaksChoices(args, start_vars) = {0}
            /\ get_solution_summary(args, solution_found, status, start_vars).order_breaks = 0
            /\ BestObjective(args, start_vars) = LargestEnd(args, start_vars)
            /\ status = "OPTIMAL" => LargestEnd(args, start_vars) = SmallestMakespan[args]
    /\ (args = ScenarioD /\ phase = "solving") => SolutionTable[args] # {}
    /\ (args = ScenarioD /\ Solved /\ status = "OPTIMAL") =>
            /\ start_vars[0]["Intro"] = 0
            /\ get_solution_summary(args, solution_found, status, start_vars).order_breaks = 0

\* Scenario D solved to optimality.
C23_Witness ==
    /\ args = ScenarioD
    /\ Solved
    /\ status = "OPTIMAL"
    /\ Cardinality(SolutionTable[args]) > 1

\* A problem with a preferred order of one entry solved.
OneEntryOrderSolved ==
    Solved /\ Len(args.order) = 1

(***************************************************************************)
(* Section 2 of the specification: a solve owns its model.                 *)
(***************************************************************************)
LatestCallOnly ==
    phase = "solved" =>
        /\ solution_found = (status \in {"OPTIMAL", "FEASIBLE"})
        /\ solution_found => start_vars \in SolutionTable[args]
        /\ status = "INFEASIBLE" => SolutionTable[args] = {}

\* C24: re-solving is pure.  During and after every solve() the model holds the
\* constraint groups of one encoding and nothing of earlier calls; once the
\* object exists no step changes its problem fields; and after a call
\* solution_found goes with the status of that call, the values are an
\* assignment of the model of the problem, and INFEASIBLE is reported only
\* when it has none.
C24_ResolvePure ==
    /\ [](phase \in {"solving", "solved"} => model = Encoded(NoModel))
    /\ []LatestCallOnly
    /\ [][phase \notin {"args", "config"} => args' = args]_vars

\* solve() called again after a call that found a solution.
C24_Witness ==
    /\ phase = "solving"
    /\ solution_found
    /\ status \in {"OPTIMAL", "FEASIBLE"}
    /\ model = Encoded(NoModel)

(***************************************************************************)
(* The reporting methods without a solution.                               *)
(***************************************************************************)
NoSolutionNow == phase \in {"ready", "solved"} /\ ~solution_found

\* C25: whenever the latest solve() found no solution, or solve() was never
\* called, get_solution_summary returns only the status "No solution found",
\* get_candidate_schedule returns the empty list and export_to_csv raises
\* ValueError and yields no rows; this holds for what a call would return in
\* that state and for what the most recent call did return.
C25_NoSolutionHandling ==
    NoSolutionNow =>
        /\ get_solution_summary(args, solution_found, status, start_vars)
              = [status |-> "No solution found"]
        /\ \A c \in Candidates(args) :
              get_candidate_schedule(args, solution_found, start_vars, c) = <<>>
        /\ \A date \in CsvDates :
              LET raised == export_to_csv(args, solution_found, start_vars, date) IN
              ~raised.ok /\ DOMAIN raised = {"ok", "error"}
        /\ output.op = "get_solution_summary" =>
              output.value = [status |-> "No solution found"]
        /\ output.op = "get_candidate_schedule" => output.value = <<>>
        /\ output.op = "export_to_csv" =>
              ~output.value.ok /\ DOMAIN output.value = {"ok", "error"}

\* export_to_csv called after a solve() that timed out on a problem that has
\* schedules.
C25_Witness ==
    /\ phase = "solved"
    /\ status = "UNKNOWN"
    /\ ~solution_found
    /\ SolutionTable[args] # {}
    /\ output.op = "export_to_csv"

\* get_solution_summary called before any solve().
SummaryBeforeSolve ==
    phase = "ready" /\ output.op = "get_solution_summary"

(***************************************************************************)
(* The web adapter's solution loop.                                        *)
(***************************************************************************)
PairwiseDissimilar(solutions) ==
    \A i, j \in DOMAIN solutions :
        i # j => ~web_solutions_are_similar(solutions[i], solutions[j])

\* C26: upload_file makes at most 10 solve attempts and none after the third
\* solution is kept; the kept solutions are pairwise not similar, so a stored
\* session has between 1 and 3 pairwise dissimilar solutions; and when the
\* request is answered with the error, no session is stored.
C26_UploadLoop ==
    /\ (phase = "looping" /\ request.op = "upload") =>
            /\ request.attempt <= 10
            /\ Len(request.solutions) <= 3
            /\ \A i \in DOMAIN request.solutions :
                  request.solutions[i].attempt <= request.attempt
            /\ Len(request.solutions) = 3 =>
                  request.solutions[3].attempt = request.attempt
            /\ PairwiseDissimilar(request.solutions)
    /\ (phase = "answered" /\ output.op = "upload") =>
            /\ output.code = 200 =>
                  /\ DOMAIN temp_files = {output.session_id}
                  /\ Len(temp_files[output.session_id].solutions) \in 1 .. 3
                  /\ PairwiseDissimilar(temp_files[output.session_id].solutions)
            /\ output.code # 200 =>
                  /\ DOMAIN temp_files = {}
                  /\ ~solution_found

\* An upload answered with three solutions stored, the third found after an
\* attempt whose solution was not kept.
C26_Witness ==
    /\ phase = "answered"
    /\ output.op = "upload"
    /\ output.code = 200
    /\ Len(temp_files[output.session_id].solutions) = 3
    /\ temp_files[output.session_id].solutions[3].attempt > 3

\* An upload answered with the error after ten attempts on a problem that has
\* schedules.
UploadFailedAfterTimeouts ==
    /\ phase = "answered"
    /\ output.op = "upload"
    /\ output.code = 400
    /\ SolutionTable[args] # {}

(***************************************************************************)
(* The API's test of similar solutions.                                    *)
(***************************************************************************)
\* The sum over all candidates of the gaps before their sessions.
SumOfGaps(schedules) ==
    SetSum([c \in DOMAIN schedules |->
                SeqSum([i \in DOMAIN schedules[c] |->
                            IF i = 1 THEN 0 ELSE schedules[c][i].gap_before])],
           DOMAIN schedules)

LatestSolution == solution_data(args, status, start_vars, request.attempt - 1)

\* C28: in /api/schedule-multiple a solution whose total idle time differs from
\* that of every kept solution is kept: after an attempt that found a solution,
\* some kept solution has the total idle time of the one just found.
C28_IdleTimeDedup ==
    (phase = "looping" /\ request.op = "schedule_multiple" /\ solution_found) =>
        \E i \in DOMAIN request.solutions :
            SumOfGaps(request.solutions[i].schedules) = SumOfGaps(LatestSolution.schedules)

\* What the code does: the idle time it computes is 0 for every solution, every
\* two solutions are similar, and only the first one found is ever kept.
ApiKeepsFirstOnly ==
    (request.op = "schedule_multiple") =>
        /\ Len(request.solutions) <= 1
        /\ \A i \in DOMAIN request.solutions :
              api_calculate_total_idle_time(request.solutions[i].schedules) = 0

\* A second solution with another total idle time was found and discarded.
ApiDiscardedDifferentIdle ==
    /\ phase = "looping"
    /\ request.op = "schedule_multiple"
    /\ request.max_solutions = 3
    /\ solution_found
    /\ Len(request.solutions) = 1
    /\ SumOfGaps(request.solutions[1].schedules) # SumOfGaps(LatestSolution.schedules)

(***************************************************************************)
(* Sessions expire after one hour.                                         *)
(***************************************************************************)
RetrievalOps == {"get_solutions", "download", "download_csv"}

OlderThanOneHour(session_id) ==
    session_id \in DOMAIN temp_files /\ now - temp_files[session_id].timestamp > 3600

\* A retrieval request is answered in this step, as the claim has it: every
\* session older than 3600 s is gone afterwards, no other session is, and the
\* request is answered 404 for a session older than one hour and is served
\* (found; 200 for solutions and download) for a stored session that is not.
AnsweredWithTTL ==
    (output' # output /\ output'.op \in RetrievalOps) =>
        /\ DOMAIN temp_files' = {s \in DOMAIN temp_files : ~OlderThanOneHour(s)}
        /\ OlderThanOneHour(output'.session_id) =>
              output'.code = 404 /\ output'.error = SessionNotFound
        /\ (output'.session_id \in DOMAIN temp_files
                /\ ~OlderThanOneHour(output'.session_id)) =>
              /\ output'.code # 404
              /\ output'.op \in {"get_solutions", "download"} => output'.code = 200

\* C27: in both adapters every session-retrieval endpoint first sweeps the
\* sessions older than 3600 s, answers 404 for a session older than one hour
\* and serves a younger stored one; session ids are never handed out twice.
C27_SessionTTL ==
    /\ [][AnsweredWithTTL]_vars
    /\ [](DOMAIN temp_files \subseteq issued)

\* What the code does: the web adapter alone behaves so.
WebSessionTTL ==
    [][config.name = "web" => AnsweredWithTTL]_vars

\* The API serves a session that is older than one hour.
ApiServesExpiredSession ==
    /\ config.name = "api"
    /\ output.op = "get_solutions"
    /\ output.code = 200
    /\ OlderThanOneHour(output.session_id)

\* The web adapter has answered 404 for a session it had stored.
WebExpiredSessionAnswered ==
    /\ config.name = "web"
    /\ output.op \in RetrievalOps
    /\ output.code = 404
    /\ output.session_id \in issued

(***************************************************************************)
(* The session store with two threads.                                     *)
(***************************************************************************)
SweepEnds == output' # output /\ output'.op = "cleanup"

\* C29: a sweep interleaved with the insertion of a session by another request
\* completes without error; it removes sessions older than one hour only, none
\* of the sessions it looked at is left older than one hour, and the session
\* inserted meanwhile is still there.
C29_SweepWithInsertion ==
    /\ [][SweepEnds => output'.code = 200]_vars
    /\ [][request.op = "cleanup" =>
             /\ \A s \in DOMAIN temp_files \ DOMAIN temp_files' :
                   Expired(temp_files, s, request.current_time)
             /\ SweepEnds =>
                   \A s \in DOMAIN temp_files' :
                       s \in request.visited =>
                           ~Expired(temp_files', s, request.current_time)]_vars

\* What the code does: a sweep that reaches its end has removed the sessions
\* older than one hour and nothing else.
SweepRemovesExpiredOnly ==
    [][request.op = "cleanup" =>
         /\ \A s \in DOMAIN temp_files \ DOMAIN temp_files' :
               Expired(temp_files, s, request.current_time)
         /\ (SweepEnds /\ output'.code = 200) =>
               \A s \in DOMAIN temp_files' :
                   s \in request.visited => ~Expired(temp_files', s, request.current_time)]_vars

\* The sweep was ended by the iterator's error while a session was being stored.
SweepRaised ==
    /\ output.op = "cleanup"
    /\ output.code = 500
    /\ DOMAIN temp_files # {}

\* A sweep has ended without error after a session was stored during its
\* second loop, the expired session gone and the new one kept.
SweepSurvivedInsertion ==
    /\ output.op = "cleanup"
    /\ output.code = 200
    /\ request = NoRequest
    /\ issued = SessionIds
    /\ Cardinality(DOMAIN temp_files) = 1

(***************************************************************************)
(* Availability given as clock times.                                      *)
(***************************************************************************)
ClockOfSlot(a, k) ==
    a.start_time_hour * 60 + a.start_time_minute + k * a.slot_duration_minutes

\* The session of p in row r lies inside the clock-time window w = <<h1, m1, h2, m2>>.
InsideClockWindow(a, r, p, w) ==
    /\ ClockOfSlot(a, r[p]) >= w[1] * 60 + w[2]
    /\ ClockOfSlot(a, End(a, r, p)) <= w[3] * 60 + w[4]

WindowAligned(cfg, w) ==
    /\ ((w[1] - cfg.start_time[1]) * 60 + (w[2] - cfg.start_time[2]))
           % cfg.slot_duration_minutes = 0
    /\ ((w[3] - cfg.start_time[1]) * 60 + (w[4] - cfg.start_time[2]))
           % cfg.slot_duration_minutes = 0

AllWindowsAligned(cfg) ==
    \A p \in DOMAIN cfg.availabilities : \A i \in DOMAIN cfg.availabilities[p] :
        WindowAligned(cfg, cfg.availabilities[p][i])

\* C30: for a configuration with availability in clock times, every scheduled
\* session of a panel starts at or after the start and ends at or before the
\* end of one of the panel's stated windows, aligned to a slot boundary or not.
C30_ClockWindowsRespected ==
    (Solved /\ config # NoConfig) =>
        \A c \in Candidates(args) : \A p \in PanelSet(args) :
            \E i \in DOMAIN config.availabilities[p] :
                InsideClockWindow(args, start_vars[c], p, config.availabilities[p][i])

\* What the code does: windows whose times are on slot boundaries are respected.
AlignedClockWindowsRespected ==
    (Solved /\ config # NoConfig /\ AllWindowsAligned(config)) =>
        \A c \in Candidates(args) : \A p \in PanelSet(args) :
            \E i \in DOMAIN config.availabilities[p] :
                InsideClockWindow(args, start_vars[c], p, config.availabilities[p][i])

\* And the end of a window is never moved later, aligned or not.
ClockWindowEndRespected ==
    (Solved /\ config # NoConfig) =>
        \A c \in Candidates(args) : \A p \in PanelSet(args) :
            \E i \in DOMAIN config.availabilities[p] :
                LET w == config.availabilities[p][i] IN
                ClockOfSlot(args, End(args, start_vars[c], p)) <= w[3] * 60 + w[4]

\* A session that starts before the start of its panel's only window.
SessionBeforeWindowStart ==
    /\ Solved
    /\ config # NoConfig
    /\ \E c \in Candidates(args) :
          \A i \in DOMAIN config.availabilities["A"] :
              ClockOfSlot(args, start_vars[c]["A"])
                  < config.availabilities["A"][i][1] * 60 + config.availabilities["A"][i][2]

====
